---------------------------- MODULE Spec2Model ----------------------------
(***************************************************************************)
(* State-machine model of the analysis components of data-analysis-ui:     *)
(*   EarlyDetection      (exponential-smoothing forecast)                  *)
(*   SensitivityAnalysis (weight reallocation)                             *)
(*   AlternativeMethods  (TOPSIS / Euclidean ranking)                      *)
(*   CorrelationAnalysis (Pearson correlation matrix)                      *)
(* Each component is a React function component: its state is the set of   *)
(* useState cells, its operations are the event handlers and the effects   *)
(* that follow them.  A handler reads the state of the render it was       *)
(* created in and its setState calls take effect after it returns.         *)
(*                                                                         *)
(* JavaScript numbers are modelled as exact rationals <<n, d>> (d > 0,     *)
(* lowest terms), with NaN == <<0, 0>> and +-Infinity == <<+-1, 0>>;       *)
(* floating-point rounding is not modelled.                                *)
(***************************************************************************)
EXTENDS Integers, Sequences, FiniteSets, TLC

(***************************************************************************)
(* Numbers                                                                 *)
(***************************************************************************)
Abs(i) == IF i < 0 THEN -i ELSE i

Sign(i) == IF i < 0 THEN -1 ELSE IF i > 0 THEN 1 ELSE 0

RECURSIVE Gcd(_, _)
Gcd(a, b) == IF b = 0 THEN a ELSE Gcd(b, a % b)

NaN == <<0, 0>>

IsNaN(x) == x = NaN

\* n/d as a number: lowest terms; x/0 is +-Infinity, 0/0 is NaN.
Rat(n, d) ==
    IF d = 0 THEN <<Sign(n), 0>>
    ELSE LET g == Gcd(Abs(n), Abs(d))
             s == IF d < 0 THEN -1 ELSE 1
         IN  <<(s * n) \div g, (s * d) \div g>>

Num(i) == <<i, 1>>

IsFinite(x) == x[2] # 0

RAdd(x, y) ==
    IF IsNaN(x) \/ IsNaN(y) THEN NaN
    ELSE IF IsFinite(x) /\ IsFinite(y)
         THEN Rat(x[1] * (y[2] \div Gcd(x[2], y[2])) + y[1] * (x[2] \div Gcd(x[2], y[2])),
                  x[2] * (y[2] \div Gcd(x[2], y[2])))
    ELSE IF ~IsFinite(x) /\ ~IsFinite(y) THEN (IF x = y THEN x ELSE NaN)
    ELSE IF ~IsFinite(x) THEN x ELSE y

RNeg(x) == <<-x[1], x[2]>>

RSub(x, y) == RAdd(x, RNeg(y))

\* (a/b)(c/d) with a/d and c/b reduced before multiplying.
MulReduced(a, b, c, d) ==
    Rat((a \div Gcd(Abs(a), Abs(d))) * (c \div Gcd(Abs(c), Abs(b))),
        (b \div Gcd(Abs(c), Abs(b))) * (d \div Gcd(Abs(a), Abs(d))))

RMul(x, y) ==
    IF IsNaN(x) \/ IsNaN(y) THEN NaN
    ELSE IF IsFinite(x) /\ IsFinite(y) THEN MulReduced(x[1], x[2], y[1], y[2])
    ELSE Rat(x[1] * y[1], x[2] * y[2])

RDiv(x, y) ==
    IF IsNaN(x) \/ IsNaN(y) THEN NaN
    ELSE IF ~IsFinite(x) /\ ~IsFinite(y) THEN NaN
    ELSE IF ~IsFinite(y) THEN Num(0)
    ELSE IF y[1] = 0 THEN <<Sign(x[1]), 0>>
    ELSE IF ~IsFinite(x) THEN <<x[1] * Sign(y[1]), 0>>
    ELSE MulReduced(x[1] * Sign(y[1]), x[2], y[2], Abs(y[1]))

\* Comparisons are false as soon as an operand is NaN.
RLt(x, y) ==
    /\ ~IsNaN(x) /\ ~IsNaN(y)
    /\ IF IsFinite(x) \/ IsFinite(y) THEN x[1] * y[2] < y[1] * x[2]
       ELSE x[1] < y[1]

RGt(x, y) == RLt(y, x)

RLe(x, y) == ~IsNaN(x) /\ ~IsNaN(y) /\ ~RLt(y, x)

RGe(x, y) == RLe(y, x)

RAbs(x) == <<Abs(x[1]), x[2]>>

\* Math.min / Math.max of two numbers: NaN if either is NaN.
RMin(x, y) == IF IsNaN(x) \/ IsNaN(y) THEN NaN ELSE IF RLt(y, x) THEN y ELSE x

RMax(x, y) == IF IsNaN(x) \/ IsNaN(y) THEN NaN ELSE IF RGt(y, x) THEN y ELSE x

RECURSIVE RSum(_)
RSum(s) == IF s = <<>> THEN Num(0) ELSE RAdd(RSum(SubSeq(s, 1, Len(s) - 1)), s[Len(s)])

\* Math.min(...values) / Math.max(...values) of a non-empty array.
RECURSIVE RMinSeq(_)
RMinSeq(s) == IF Len(s) = 1 THEN s[1] ELSE RMin(RMinSeq(SubSeq(s, 1, Len(s) - 1)), s[Len(s)])

RECURSIVE RMaxSeq(_)
RMaxSeq(s) == IF Len(s) = 1 THEN s[1] ELSE RMax(RMaxSeq(SubSeq(s, 1, Len(s) - 1)), s[Len(s)])

(***************************************************************************)
(* Sequences                                                               *)
(***************************************************************************)
Range(s) == {s[i] : i \in DOMAIN s}

Includes(s, x) == \E i \in DOMAIN s : s[i] = x

\* Array.prototype.indexOf, 1-based; 0 stands for -1.
IndexOf(s, x) == IF Includes(s, x) THEN CHOOSE i \in DOMAIN s : s[i] = x /\ \A j \in 1..(i - 1) : s[j] # x ELSE 0

RECURSIVE Without(_, _)
Without(s, x) ==
    IF s = <<>> THEN <<>>
    ELSE IF s[1] = x THEN Without(Tail(s), x)
    ELSE <<s[1]>> \o Without(Tail(s), x)

\* prev => prev.includes(v) ? prev.filter(x => x !== v) : [...prev, v]
Toggle(prev, v) == IF Includes(prev, v) THEN Without(prev, v) ELSE Append(prev, v)

(***************************************************************************)
(* Cells and datasets                                                      *)
(***************************************************************************)
\* A cell of ExcelData.data: a number, a string, or a hole (undefined).
NumCell(i) == [k |-> "num", n |-> i, s |-> ""]

StrCell(t) == [k |-> "str", n |-> 0, s |-> t]

Nil == [k |-> "nil", n |-> 0, s |-> ""]

MaxCellNum == 100

DecDigits == <<"0", "1", "2", "3", "4", "5", "6", "7", "8", "9">>

\* Number.prototype.toString of an integer.
RECURSIVE NumToString(_)
NumToString(i) ==
    IF i < 0 THEN "-" \o NumToString(-i)
    ELSE IF i < 10 THEN DecDigits[i + 1]
    ELSE NumToString(i \div 10) \o DecDigits[(i % 10) + 1]

\* The decimal texts of the numbers a cell can hold.
NumStrings == [i \in (-MaxCellNum)..MaxCellNum |-> NumToString(i)]

\* The number each decimal text denotes.
NumberOfString == [t \in Range(NumStrings) |-> CHOOSE i \in (-MaxCellNum)..MaxCellNum : NumStrings[i] = t]

\* parseFloat: the longest numeric prefix, NaN when there is none.
ParseFloat(t) ==
    IF t = "3x" THEN Num(3)
    ELSE IF t \in DOMAIN NumberOfString THEN Num(NumberOfString[t])
    ELSE NaN

\* Number(value): the whole text must be numeric; '' converts to 0.
ToNumber(c) ==
    IF c.k = "num" THEN Num(c.n)
    ELSE IF c.k = "nil" THEN NaN
    ELSE IF c.s = "" THEN Num(0)
    ELSE IF c.s = "3x" THEN NaN
    ELSE ParseFloat(c.s)

\* cell?.toString(); "undefined" stands for the undefined of a hole.
CellToString(c) == IF c.k = "num" THEN NumToString(c.n) ELSE IF c.k = "str" THEN c.s ELSE "undefined"

\* !cell
Falsy(c) == c.k = "nil" \/ (c.k = "str" /\ c.s = "") \/ (c.k = "num" /\ c.n = 0)

\* parseFloat(cell?.toString() || dflt)
ParseCell(c, dflt) == ParseFloat(IF c.k = "nil" \/ CellToString(c) = "" THEN dflt ELSE CellToString(c))

Headers == <<"Supplier", "Time", "Quality", "Price">>

Row(s, t, q, p) == <<s, t, q, p>>

DS1 ==
    [headers |-> Headers,
     data |-> << Row(StrCell("A"), NumCell(1), NumCell(90), NumCell(10)),
                 Row(StrCell("A"), NumCell(2), NumCell(60), NumCell(20)),
                 Row(StrCell("A"), NumCell(3), NumCell(40), NumCell(30)) >>]

DS2 ==
    [headers |-> Headers,
     data |-> << Row(StrCell("B"), NumCell(1), NumCell(50), StrCell("abc")),
                 Row(StrCell("A"), NumCell(1), NumCell(80), NumCell(10)),
                 Row(StrCell("B"), NumCell(2), NumCell(50), NumCell(5)),
                 Row(StrCell("A"), NumCell(2), NumCell(90), StrCell("")),
                 Row(StrCell("B"), NumCell(3), NumCell(50), NumCell(7)),
                 Row(StrCell("A"), NumCell(3), NumCell(100), NumCell(40)),
                 Row(StrCell("B"), NumCell(4), StrCell("3x"), NumCell(9)),
                 Row(StrCell(""), NumCell(5), NumCell(70), NumCell(1)),
                 Row(StrCell("A"), NumCell(0), NumCell(70), NumCell(1)) >>]

DS3 ==
    [headers |-> Headers,
     data |-> << Row(StrCell("A"), NumCell(1), NumCell(10), NumCell(5)),
                 Row(StrCell("B"), NumCell(1), NumCell(5), NumCell(3)),
                 Row(StrCell("C"), NumCell(1), NumCell(1), NumCell(9)) >>]

DS4 ==
    [headers |-> Headers,
     data |-> << Row(StrCell("A"), NumCell(1), StrCell("abc"), Nil),
                 Row(StrCell("B"), NumCell(2), NumCell(5), StrCell("")),
                 Row(StrCell("C"), NumCell(3), NumCell(10), Nil) >>]

DS5 ==
    [headers |-> Headers,
     data |-> << Row(StrCell("A"), NumCell(1), NumCell(4), StrCell("abc")),
                 Row(StrCell(""), NumCell(2), NumCell(8), StrCell("abc")),
                 Row(StrCell("A"), NumCell(0), NumCell(6), StrCell("n/a")),
                 Row(StrCell("C"), NumCell(4), NumCell(6), StrCell("abc")) >>]

DS6 ==
    [headers |-> Headers,
     data |-> << Row(StrCell("A"), NumCell(1), NumCell(0), StrCell("abc")),
                 Row(StrCell("B"), NumCell(2), NumCell(4), StrCell("n/a")),
                 Row(StrCell("C"), NumCell(2), StrCell("abc"), StrCell("abc")),
                 Row(StrCell("D"), NumCell(2), NumCell(8), StrCell("abc")),
                 Row(StrCell("E"), NumCell(3), NumCell(2), StrCell("n/a")) >>]

DS7 ==
    [headers |-> Headers,
     data |-> << Row(StrCell("A"), NumCell(3), NumCell(5), Nil),
                 Row(StrCell("B"), NumCell(2), NumCell(0), StrCell("")),
                 Row(StrCell("C"), NumCell(2), NumCell(1), Nil),
                 Row(StrCell("D"), NumCell(2), StrCell(""), StrCell("")),
                 Row(StrCell("E"), NumCell(1), NumCell(2), Nil) >>]

DS8 ==
    [headers |-> Headers,
     data |-> << Row(StrCell("A"), NumCell(1), NumCell(-10), NumCell(80)),
                 Row(StrCell("A"), NumCell(2), NumCell(-20), NumCell(90)),
                 Row(StrCell("A"), NumCell(3), NumCell(-40), NumCell(100)) >>]

DS9 ==
    [headers |-> Headers,
     data |-> << Row(StrCell("A"), NumCell(1), NumCell(10), NumCell(1)),
                 Row(StrCell("B"), NumCell(2), NumCell(6), NumCell(1)),
                 Row(StrCell("C"), NumCell(3), NumCell(1), NumCell(3)) >>]

DataSets == {DS1, DS2, DS3, DS4, DS5, DS6, DS7, DS8, DS9}

\* String.prototype.localeCompare on the identifiers that occur: -1, 0, 1.
NameOrder == <<"", "1", "2", "3", "4", "A", "B", "C">>

LocaleCompare(a, b) == Sign(IndexOf(NameOrder, a) - IndexOf(NameOrder, b))

VARIABLES
    excelData,              \* FileContext: the loaded dataset
    ed_timeColumn, ed_supplierColumn, ed_categoryColumns,
    ed_alphaValue, ed_declineThreshold,
    ed_supplierHistory, ed_predictionResults,
    ed_overallAccuracy, ed_cdGradeAccuracy, ed_error,
    sa_categories,          \* SensitivityAnalysis
    sa_supplierColumn, sa_targetCategory, sa_optimizationGoal, sa_suppliers,
    sa_originalWeights, sa_newWeights, sa_absoluteChanges, sa_newSupplierScores,
    sa_error,
    am_selectedMethod,      \* AlternativeMethods
    am_selectedVariables, am_evaluationColumn, am_criteriaWeights,
    am_result, am_originalRankings, am_error,
    ca_selectedVariables,   \* CorrelationAnalysis
    ca_correlationMatrix, ca_variableStats, ca_numericData, ca_error,
    pearson_x, pearson_y,   \* the arguments of a call of calculatePearsonCorrelation
    pearson_coefficient,    \* and what it returned
    smoothing_data, smoothing_alpha,   \* the arguments of a call of exponentialSmoothing
    smoothing_fitted,       \* and what it returned
    cell_x, cell_y,         \* the two series of an off-diagonal matrix cell
    cell_result,            \* and the cell handleRun builds from them
    round_lambda,           \* the argument of a call of roundLambda
    round_result,           \* and what it returned
    power_values, power_lambda,   \* the arguments of a call of applyPowerTransformation
    power_result            \* and what it returned

edVars == <<ed_timeColumn, ed_supplierColumn, ed_categoryColumns,
            ed_alphaValue, ed_declineThreshold,
            ed_supplierHistory, ed_predictionResults,
            ed_overallAccuracy, ed_cdGradeAccuracy, ed_error>>

saVars == <<sa_categories, sa_supplierColumn, sa_targetCategory, sa_optimizationGoal,
            sa_suppliers, sa_originalWeights, sa_newWeights, sa_absoluteChanges,
            sa_newSupplierScores, sa_error>>

amVars == <<am_selectedMethod, am_selectedVariables, am_evaluationColumn,
            am_criteriaWeights, am_result, am_originalRankings, am_error>>

caVars == <<ca_selectedVariables, ca_correlationMatrix, ca_variableStats, ca_numericData,
            ca_error>>

pearsonVars == <<pearson_x, pearson_y, pearson_coefficient>>

smoothingVars == <<smoothing_data, smoothing_alpha, smoothing_fitted>>

cellVars == <<cell_x, cell_y, cell_result>>

roundVars == <<round_lambda, round_result>>

powerVars == <<power_values, power_lambda, power_result>>

callVars == <<pearsonVars, smoothingVars, cellVars, roundVars, powerVars>>

vars == <<excelData, edVars, saVars, amVars, caVars, callVars>>

\* The state of the components other than the one an action belongs to: only
\* one analysis route is mounted at a time.
outsideED == <<saVars, amVars, caVars, callVars>>

outsideSA == <<edVars, amVars, caVars, callVars>>

outsideAM == <<edVars, saVars, caVars, callVars>>

outsideCA == <<edVars, saVars, amVars, callVars>>


(***************************************************************************)
(* Sorting                                                                 *)
(***************************************************************************)
\* Array.prototype.sort with a consistent comparator: a stable sort.  The
\* element at index i moves behind every element that compares before it
\* and every earlier element that compares equal to it.
StableSort(s, Cmp(_, _)) ==
    LET pos(i) == Cardinality({j \in DOMAIN s : Cmp(s[j], s[i]) < 0})
                  + Cardinality({j \in 1..(i - 1) : Cmp(s[j], s[i]) = 0}) + 1
    IN  [p \in DOMAIN s |-> s[CHOOSE i \in DOMAIN s : pos(i) = p]]

(***************************************************************************)
(* EarlyDetection                                                          *)
(***************************************************************************)
NoError == "null"

getLetterGrade(score) ==
    IF RGe(score, Num(85)) THEN "A"
    ELSE IF RGe(score, Num(70)) THEN "B"
    ELSE IF RGe(score, Num(50)) THEN "C"
    ELSE "D"

\* result[0..i-1] of exponentialSmoothing: the fitted values for the first
\* i observations.
RECURSIVE SmoothedPrefix(_, _, _)
SmoothedPrefix(data, alpha, i) ==
    IF i = 1 THEN <<data[1]>>
    ELSE LET prev == SmoothedPrefix(data, alpha, i - 1)
         IN  Append(prev, RAdd(RMul(alpha, data[i - 1]),
                               RMul(RSub(Num(1), alpha), prev[i - 1])))

\* exponentialSmoothing without the final push of nextPrediction.
exponentialSmoothingWithoutForecast(data, alpha) ==
    IF Len(data) = 0 THEN <<>> ELSE SmoothedPrefix(data, alpha, Len(data))

exponentialSmoothing(data, alpha) ==
    IF Len(data) = 0 THEN <<>>
    ELSE LET result == SmoothedPrefix(data, alpha, Len(data))
             nextPrediction == RAdd(RMul(alpha, data[Len(data)]),
                                    RMul(RSub(Num(1), alpha), result[Len(result)]))
         IN  Append(result, nextPrediction)

calculateAccuracy(actual, predicted) ==
    IF Len(actual) = 0 \/ Len(predicted) # Len(actual) THEN Num(0)
    ELSE LET totalError == RSum([i \in DOMAIN actual |-> RAbs(RSub(actual[i], predicted[i]))])
         IN  RSub(Num(100), RDiv(totalError, Num(Len(actual))))

calculateTrend(lastPredictions, declineThreshold) ==
    IF Len(lastPredictions) < 2 THEN "stable"
    ELSE LET lastValue == lastPredictions[Len(lastPredictions)]
             prevValue == lastPredictions[Len(lastPredictions) - 1]
             percentChange == RMul(RDiv(RSub(lastValue, prevValue), prevValue), Num(100))
         IN  IF RGt(percentChange, Num(declineThreshold)) THEN "up"
             ELSE IF RLt(percentChange, Num(-declineThreshold)) THEN "down"
             ELSE "stable"

\* history[supplier][category].values.push(v); .times.push(t), creating the
\* series on first use.  A supplier's categories keep their creation order.
PushSeries(cats, category, v, t) ==
    IF \E i \in DOMAIN cats : cats[i].category = category
    THEN LET i == CHOOSE j \in DOMAIN cats : cats[j].category = category
         IN  [cats EXCEPT ![i].values = Append(@, v), ![i].times = Append(@, t)]
    ELSE Append(cats, [category |-> category, values |-> <<v>>, times |-> <<t>>])

\* One data entry added to history: the supplier's record is created first,
\* then every category of the entry that holds a number is pushed.
RECURSIVE PushEntry(_, _, _, _, _)
PushEntry(cats, row, categoryColumns, categoryIndices, timeCell) ==
    IF categoryColumns = <<>> THEN cats
    ELSE LET value == ParseCell(row[categoryIndices[1]], "")
             next == IF IsNaN(value) THEN cats
                     ELSE PushSeries(cats, categoryColumns[1], value, timeCell)
         IN  PushEntry(next, row, Tail(categoryColumns), Tail(categoryIndices), timeCell)

\* Whether a row becomes a data entry: time and supplier cells truthy and
\* at least one category cell numeric.
IsEntry(row, timeIdx, supplierIdx, categoryIndices) ==
    /\ ~Falsy(row[timeIdx])
    /\ ~Falsy(row[supplierIdx])
    /\ \E i \in DOMAIN categoryIndices : ~IsNaN(ParseCell(row[categoryIndices[i]], ""))

\* The history after the first n rows of the dataset: a sequence of
\* [supplier, cats] in the order the suppliers were first seen.
RECURSIVE GroupRows(_, _, _, _, _, _)
GroupRows(data, n, timeIdx, supplierIdx, categoryColumns, categoryIndices) ==
    IF n = 0 THEN <<>>
    ELSE LET hist == GroupRows(data, n - 1, timeIdx, supplierIdx, categoryColumns, categoryIndices)
             row == data[n]
             supplier == CellToString(row[supplierIdx])
         IN  IF ~IsEntry(row, timeIdx, supplierIdx, categoryIndices) THEN hist
             ELSE IF \E i \in DOMAIN hist : hist[i].supplier = supplier
             THEN LET i == CHOOSE j \in DOMAIN hist : hist[j].supplier = supplier
                  IN  [hist EXCEPT ![i].cats =
                          PushEntry(@, row, categoryColumns, categoryIndices, row[timeIdx])]
             ELSE Append(hist, [supplier |-> supplier,
                                cats |-> PushEntry(<<>>, row, categoryColumns,
                                                   categoryIndices, row[timeIdx])])

\* extractData once the column indices are known (0 stands for -1).
extractDataAt(ds, categoryColumns, timeIdx, supplierIdx, categoryIndices, oldHistory) ==
    IF timeIdx = 0 \/ supplierIdx = 0
    THEN [ok |-> FALSE, error |-> "Selected columns not found in data.",
          history |-> oldHistory]
    ELSE IF \E i \in DOMAIN categoryIndices : categoryIndices[i] = 0
    THEN [ok |-> FALSE,
          error |-> "Error extracting data: Category column '"
                    \o categoryColumns[IndexOf(categoryIndices, 0)]
                    \o "' not found in data.",
          history |-> oldHistory]
    ELSE IF \A r \in DOMAIN ds.data : ~IsEntry(ds.data[r], timeIdx, supplierIdx, categoryIndices)
    THEN [ok |-> FALSE, error |-> "No valid data found for analysis.",
          history |-> oldHistory]
    ELSE [ok |-> TRUE, error |-> NoError,
          history |-> GroupRows(ds.data, Len(ds.data), timeIdx, supplierIdx,
                                categoryColumns, categoryIndices)]

\* extractData: [ok, error, history]; error and history are the values it
\* passes to setError / setSupplierHistory (NoError / the old history when it
\* does not call them).
extractData(ds, timeColumn, supplierColumn, categoryColumns, oldHistory) ==
    IF timeColumn = "" \/ supplierColumn = "" \/ Len(categoryColumns) = 0
    THEN [ok |-> FALSE, error |-> "Please select required columns for analysis.",
          history |-> oldHistory]
    ELSE extractDataAt(ds, categoryColumns,
                       IndexOf(ds.headers, timeColumn), IndexOf(ds.headers, supplierColumn),
                       [i \in DOMAIN categoryColumns |-> IndexOf(ds.headers, categoryColumns[i])],
                       oldHistory)

\* The PredictionResult of one series, given its smoothed values.
PredictionFrom(supplier, series, smoothedValues, predictedValues, declineThreshold) ==
    [supplier |-> supplier,
     category |-> series.category,
     actualValues |-> series.values,
     predictedValues |-> predictedValues,
     nextPrediction |-> smoothedValues[Len(smoothedValues)],
     accuracy |-> calculateAccuracy(series.values, predictedValues),
     trend |-> calculateTrend(smoothedValues, declineThreshold),
     letterGrade |-> getLetterGrade(series.values[Len(series.values)]),
     predictedLetterGrade |-> getLetterGrade(predictedValues[Len(predictedValues)])]

\* smoothedValues.slice(0, -1)
DropLast(s) == SubSeq(s, 1, Len(s) - 1)

PredictionOfSmoothed(supplier, series, smoothedValues, declineThreshold) ==
    PredictionFrom(supplier, series, smoothedValues, DropLast(smoothedValues), declineThreshold)

\* The body of the loop of runPrediction for one series.
PredictionOf(supplier, series, alpha, declineThreshold) ==
    PredictionOfSmoothed(supplier, series, exponentialSmoothing(series.values, alpha),
                         declineThreshold)

\* The results of the series of one supplier that hold at least 3 values.
RECURSIVE PredictCats(_, _, _, _)
PredictCats(supplier, cats, alpha, declineThreshold) ==
    IF cats = <<>> THEN <<>>
    ELSE (IF Len(cats[1].values) < 3 THEN <<>>
          ELSE <<PredictionOf(supplier, cats[1], alpha, declineThreshold)>>)
         \o PredictCats(supplier, Tail(cats), alpha, declineThreshold)

\* The loop of runPrediction over Object.entries(supplierHistory).
RECURSIVE PredictAll(_, _, _)
PredictAll(history, alpha, declineThreshold) ==
    IF history = <<>> THEN <<>>
    ELSE PredictCats(history[1].supplier, history[1].cats, alpha, declineThreshold)
         \o PredictAll(Tail(history), alpha, declineThreshold)

\* The comparator of results.sort: declining first, then by supplier.
TrendCompare(a, b) ==
    IF a.trend = "down" /\ b.trend # "down" THEN -1
    ELSE IF a.trend # "down" /\ b.trend = "down" THEN 1
    ELSE LocaleCompare(a.supplier, b.supplier)

CountWhere(s, P(_)) == Cardinality({i \in DOMAIN s : P(s[i])})

GradeMatch(r) == r.letterGrade = r.predictedLetterGrade

IsCDGrade(r) == r.letterGrade = "C" \/ r.letterGrade = "D"

CDGradeMatch(r) == IsCDGrade(r) /\ GradeMatch(r)

\* The history runPrediction iterates over: the supplierHistory of the
\* render the handler belongs to.  setSupplierHistory(history) inside
\* extractData only takes effect in the next render.
HistoryReadByRun(stateHistory, extracted) == stateHistory

\* The state runPrediction leaves once the loop has produced results.
PredictionState(st, history, results) ==
    [supplierHistory |-> history,
     predictionResults |-> StableSort(results, TrendCompare),
     overallAccuracy |->
         IF Len(results) > 0
         THEN RMul(RDiv(Num(CountWhere(results, GradeMatch)), Num(Len(results))), Num(100))
         ELSE st.overallAccuracy,
     cdGradeAccuracy |->
         IF CountWhere(results, IsCDGrade) > 0
         THEN RMul(RDiv(Num(CountWhere(results, CDGradeMatch)),
                        Num(CountWhere(results, IsCDGrade))), Num(100))
         ELSE st.cdGradeAccuracy,
     error |-> st.error]

\* runPrediction after extractData returned ex.
runPredictionWith(st, ex) ==
    IF ~ex.ok THEN [st EXCEPT !.error = ex.error]
    ELSE PredictionState(st, ex.history,
                         PredictAll(HistoryReadByRun(st.supplierHistory, ex.history),
                                    ed_alphaValue, ed_declineThreshold))

\* runPrediction applied to the component state st (the cells it writes),
\* under the current dataset, column selection and parameters.
runPrediction(st) ==
    runPredictionWith(st, extractData(excelData, ed_timeColumn, ed_supplierColumn,
                                      ed_categoryColumns, st.supplierHistory))

ED_State ==
    [supplierHistory |-> ed_supplierHistory,
     predictionResults |-> ed_predictionResults,
     overallAccuracy |-> ed_overallAccuracy,
     cdGradeAccuracy |-> ed_cdGradeAccuracy,
     error |-> ed_error]

\* The inputs the model draws for the controls of EarlyDetection.
ED_DataSets == {DS1, DS2, DS8}

ED_TimeChoices == {"Time"}

ED_SupplierChoices == {"Supplier"}

ED_CategoryChoices == {"Quality", "Price"}

ED_AlphaChoices == {Rat(2, 5), Num(1)}

ED_ThresholdChoices == {5, 50}

\* useState initial values followed by the mount effect.
ED_Init ==
    /\ ed_timeColumn = ""
    /\ ed_supplierColumn = ""
    /\ ed_categoryColumns = <<>>
    /\ ed_alphaValue = Rat(2, 5)
    /\ ed_declineThreshold = 5
    /\ ed_supplierHistory = <<>>
    /\ ed_predictionResults = <<>>
    /\ ed_overallAccuracy = Num(0)
    /\ ed_cdGradeAccuracy = Num(0)
    /\ ed_error = NoError

\* A new dataset arrives (an upload completes) while EarlyDetection is
\* mounted; useEffect[excelData] resets the selections and the results.
ED_ExcelDataChange ==
    /\ \E ds \in ED_DataSets \ {excelData} : excelData' = ds
    /\ ed_timeColumn' = ""
    /\ ed_supplierColumn' = ""
    /\ ed_categoryColumns' = <<>>
    /\ ed_predictionResults' = <<>>
    /\ ed_error' = NoError
    /\ UNCHANGED <<ed_alphaValue, ed_declineThreshold, ed_supplierHistory,
                   ed_overallAccuracy, ed_cdGradeAccuracy>>
    /\ UNCHANGED outsideED

ED_SetTimeColumn ==
    /\ \E h \in ED_TimeChoices : Includes(excelData.headers, h) /\ ed_timeColumn' = h
    /\ UNCHANGED <<excelData, ed_supplierColumn, ed_categoryColumns, ed_alphaValue,
                   ed_declineThreshold, ed_supplierHistory, ed_predictionResults,
                   ed_overallAccuracy, ed_cdGradeAccuracy, ed_error>>
    /\ UNCHANGED outsideED

ED_SetSupplierColumn ==
    /\ \E h \in ED_SupplierChoices : Includes(excelData.headers, h) /\ ed_supplierColumn' = h
    /\ UNCHANGED <<excelData, ed_timeColumn, ed_categoryColumns, ed_alphaValue,
                   ed_declineThreshold, ed_supplierHistory, ed_predictionResults,
                   ed_overallAccuracy, ed_cdGradeAccuracy, ed_error>>
    /\ UNCHANGED outsideED

ED_handleCategoryToggle ==
    /\ \E h \in ED_CategoryChoices :
          Includes(excelData.headers, h) /\ ed_categoryColumns' = Toggle(ed_categoryColumns, h)
    /\ UNCHANGED <<excelData, ed_timeColumn, ed_supplierColumn, ed_alphaValue,
                   ed_declineThreshold, ed_supplierHistory, ed_predictionResults,
                   ed_overallAccuracy, ed_cdGradeAccuracy, ed_error>>
    /\ UNCHANGED outsideED

ED_SetAlphaValue ==
    /\ \E a \in ED_AlphaChoices : ed_alphaValue' = a
    /\ UNCHANGED <<excelData, ed_timeColumn, ed_supplierColumn, ed_categoryColumns,
                   ed_declineThreshold, ed_supplierHistory, ed_predictionResults,
                   ed_overallAccuracy, ed_cdGradeAccuracy, ed_error>>
    /\ UNCHANGED outsideED

ED_SetDeclineThreshold ==
    /\ \E d \in ED_ThresholdChoices : ed_declineThreshold' = d
    /\ UNCHANGED <<excelData, ed_timeColumn, ed_supplierColumn, ed_categoryColumns,
                   ed_alphaValue, ed_supplierHistory, ed_predictionResults,
                   ed_overallAccuracy, ed_cdGradeAccuracy, ed_error>>
    /\ UNCHANGED outsideED

\* The run button is enabled once the three selections are made.
ED_RunEnabled == ed_timeColumn # "" /\ ed_supplierColumn # "" /\ Len(ed_categoryColumns) # 0

\* The state cells runPrediction writes take the values of r.
ED_Becomes(r) ==
    /\ ed_supplierHistory' = r.supplierHistory
    /\ ed_predictionResults' = r.predictionResults
    /\ ed_overallAccuracy' = r.overallAccuracy
    /\ ed_cdGradeAccuracy' = r.cdGradeAccuracy
    /\ ed_error' = r.error

ED_runPrediction ==
    /\ ED_RunEnabled
    /\ ED_Becomes(runPrediction(ED_State))
    /\ UNCHANGED <<excelData, ed_timeColumn, ed_supplierColumn, ed_categoryColumns,
                   ed_alphaValue, ed_declineThreshold>>
    /\ UNCHANGED outsideED

ED_Next ==
    \/ ED_ExcelDataChange
    \/ ED_SetTimeColumn
    \/ ED_SetSupplierColumn
    \/ ED_handleCategoryToggle
    \/ ED_SetAlphaValue
    \/ ED_SetDeclineThreshold
    \/ ED_runPrediction


(***************************************************************************)
(* SensitivityAnalysis                                                     *)
(***************************************************************************)
\* A nullable value: <<>> is null, <<v>> is the value v.
Null == <<>>

Some(v) == <<v>>

\* value !== undefined && value !== null && !isNaN(Number(value)) for some row
IsNumericColumn(ds, col) ==
    \E r \in DOMAIN ds.data : ds.data[r][col].k # "nil" /\ ~IsNaN(ToNumber(ds.data[r][col]))

\* The indices of the numeric columns among the first n, in header order.
RECURSIVE NumericColumns(_, _)
NumericColumns(ds, n) ==
    IF n = 0 THEN <<>>
    ELSE NumericColumns(ds, n - 1) \o (IF IsNumericColumn(ds, n) THEN <<n>> ELSE <<>>)

\* The categories useEffect[excelData] builds: one per numeric column, with
\* equal weights, none selected.
InitialCategories(ds) ==
    IF Len(ds.headers) = 0 THEN <<>>
    ELSE LET numericColumns == NumericColumns(ds, Len(ds.headers))
         IN  [i \in DOMAIN numericColumns |->
                 [category |-> ds.headers[numericColumns[i]],
                  weight |-> Rat(1, Len(numericColumns)),
                  selected |-> FALSE]]

RECURSIVE SelectedOf(_)
SelectedOf(categories) ==
    IF categories = <<>> THEN <<>>
    ELSE (IF categories[1].selected THEN <<categories[1]>> ELSE <<>>)
         \o SelectedOf(Tail(categories))

SelectedNames(categories) == {c.category : c \in Range(SelectedOf(categories))}

\* selectedCategories.reduce((acc, cat) => acc + cat.weight, 0)
SelectedTotal(categories) ==
    RSum([i \in DOMAIN SelectedOf(categories) |-> SelectedOf(categories)[i].weight])

\* The distinct truthy identifiers of column idx, in order of first occurrence.
RECURSIVE UniqueSuppliers(_, _, _)
UniqueSuppliers(data, n, idx) ==
    IF n = 0 THEN <<>>
    ELSE LET name == IF data[n][idx].k = "nil" THEN "" ELSE CellToString(data[n][idx])
         IN  UniqueSuppliers(data, n - 1, idx)
             \o (IF name = "" \/ \E r \in 1..(n - 1) :
                                    data[r][idx].k # "nil" /\ CellToString(data[r][idx]) = name
                 THEN <<>> ELSE <<name>>)

\* The numeric values of column col in the rows of supplier name.
RECURSIVE SupplierValues(_, _, _, _, _)
SupplierValues(data, n, idx, name, col) ==
    IF n = 0 THEN <<>>
    ELSE SupplierValues(data, n - 1, idx, name, col)
         \o (IF data[n][idx].k # "nil" /\ CellToString(data[n][idx]) = name
                /\ ~IsNaN(ParseCell(data[n][col], "0"))
             THEN <<ParseCell(data[n][col], "0")>> ELSE <<>>)

Average(values) == IF Len(values) > 0 THEN RDiv(RSum(values), Num(Len(values))) ELSE Num(0)

\* The average score of supplier name in category cat (0 when the column is
\* absent).
CategoryScore(ds, idx, name, cat) ==
    IF IndexOf(ds.headers, cat) = 0 THEN Num(0)
    ELSE Average(SupplierValues(ds.data, Len(ds.data), idx, name, IndexOf(ds.headers, cat)))

\* sum over the selected categories of score * weight
WeightedScore(selected, scores) ==
    RSum([i \in DOMAIN selected |-> RMul(scores[selected[i].category], selected[i].weight)])

SupplierScoreOf(name, selected, scores) ==
    [supplier |-> name, supplierScore |-> WeightedScore(selected, scores), categoryScores |-> scores]

SupplierScoresOf(ds, idx, names, selected) ==
    [i \in DOMAIN names |->
        SupplierScoreOf(names[i], selected,
                        [c \in {x.category : x \in Range(selected)} |->
                            CategoryScore(ds, idx, names[i], c)])]

\* useEffect[excelData, supplierColumn, categories]: the suppliers state it
\* leaves, given the previous one.
SuppliersEffect(ds, supplierColumn, categories, old) ==
    IF supplierColumn = "" \/ SelectedOf(categories) = <<>> THEN <<>>
    ELSE IF IndexOf(ds.headers, supplierColumn) = 0 THEN old
    ELSE SupplierScoresOf(ds, IndexOf(ds.headers, supplierColumn),
                          UniqueSuppliers(ds.data, Len(ds.data), IndexOf(ds.headers, supplierColumn)),
                          SelectedOf(categories))

\* handleWeightChange: the weight the category ends with.
ClampedWeight(currentWeight, newWeight, currentTotal) ==
    IF RGt(RAdd(currentTotal, RSub(newWeight, currentWeight)), Num(1))
    THEN RAdd(currentWeight, RSub(Num(1), currentTotal))
    ELSE newWeight

SetWeight(categories, category, w) ==
    [i \in DOMAIN categories |->
        IF categories[i].category = category THEN [categories[i] EXCEPT !.weight = w]
        ELSE categories[i]]

handleWeightChange(categories, category, newWeight) ==
    IF ~\E i \in DOMAIN categories : categories[i].category = category THEN categories
    ELSE SetWeight(categories, category,
                   ClampedWeight(categories[CHOOSE i \in DOMAIN categories :
                                               categories[i].category = category].weight,
                                 newWeight, SelectedTotal(categories)))

handleCategoryToggle(categories, category) ==
    [i \in DOMAIN categories |->
        IF categories[i].category = category
        THEN [categories[i] EXCEPT !.selected = ~categories[i].selected]
        ELSE categories[i]]

resetToEqualWeights(categories) ==
    [i \in DOMAIN categories |->
        IF categories[i].selected
        THEN [categories[i] EXCEPT !.weight = Rat(1, Len(SelectedOf(categories)))]
        ELSE categories[i]]

\* calculateNewSupplierScores
calculateNewSupplierScores(suppliers, newWeights) ==
    [i \in DOMAIN suppliers |->
        [suppliers[i] EXCEPT !.supplierScore =
            LET keys == DOMAIN suppliers[i].categoryScores
                ks == CHOOSE q \in [1..Cardinality(keys) -> keys] : Range(q) = keys
            IN  RSum([j \in DOMAIN ks |->
                        RMul(suppliers[i].categoryScores[ks[j]],
                             IF ks[j] \in DOMAIN newWeights THEN newWeights[ks[j]] ELSE Num(0))])]]

\* Mutation of maxTargetWeight: the ceiling left at the whole weight.
maxTargetWeightWhole == Num(1)

\* Mutation of minTargetWeight: the floor raised to one half.
minTargetWeightHalf == Rat(1, 2)

\* The upper limit of a maximized and the lower limit of a minimized target.
maxTargetWeight == Rat(9, 10)

minTargetWeight == Rat(1, 10)

\* Mutation of BestWeight: the two goals exchanged.
BestWeightGoalsExchanged(goal, targetCurrentWeight) ==
    IF goal = "minimize" THEN RMin(maxTargetWeight, RMul(targetCurrentWeight, Num(2)))
    ELSE RMax(minTargetWeight, RDiv(targetCurrentWeight, Num(2)))

\* bestWeight
BestWeight(goal, targetCurrentWeight) ==
    IF goal = "maximize" THEN RMin(maxTargetWeight, RMul(targetCurrentWeight, Num(2)))
    ELSE RMax(minTargetWeight, RDiv(targetCurrentWeight, Num(2)))

\* origWeights[cat.category] / totalOtherWeight, or the equal share
OtherRatio(origWeights, category, totalOtherWeight, nOthers) ==
    IF RGt(totalOtherWeight, Num(0)) THEN RDiv(origWeights[category], totalOtherWeight)
    ELSE Rat(1, nOthers)

\* Mutation of NewWeightMap: the other categories keep their weights.
NewWeightMapKeepingOthers(origWeights, target, bestWeight, totalOtherWeight) ==
    [c \in DOMAIN origWeights \cup {target} |->
        IF c = target THEN bestWeight ELSE origWeights[c]]

\* weightMap: the target gets bestWeight, every other selected category its
\* share of the rest.
NewWeightMap(origWeights, target, bestWeight, totalOtherWeight) ==
    [c \in DOMAIN origWeights \cup {target} |->
        IF c = target THEN bestWeight
        ELSE RMul(RSub(Num(1), bestWeight),
                  OtherRatio(origWeights, c, totalOtherWeight,
                             Cardinality(DOMAIN origWeights \ {target})))]

\* origWeights[targetCategory] || 0
TargetCurrentWeight(origWeights, target) ==
    IF target \in DOMAIN origWeights THEN origWeights[target] ELSE Num(0)

OrigWeights(categories) ==
    [c \in SelectedNames(categories) |->
        (CHOOSE x \in Range(SelectedOf(categories)) : x.category = c).weight]

TotalOtherWeight(categories, target) ==
    RSum([i \in DOMAIN SelectedOf(categories) |->
            IF SelectedOf(categories)[i].category = target THEN Num(0)
            ELSE SelectedOf(categories)[i].weight])

WeightMapOf(origWeights, target, goal, totalOtherWeight) ==
    NewWeightMap(origWeights, target,
                 BestWeight(goal, TargetCurrentWeight(origWeights, target)),
                 totalOtherWeight)

\* yMap: |newWeight - oldWeight| for every selected category
AbsoluteChanges(origWeights, weightMap) ==
    [c \in DOMAIN origWeights |-> RAbs(RSub(weightMap[c], origWeights[c]))]

SensitivityResult(origWeights, weightMap, suppliers) ==
    [originalWeights |-> origWeights,
     newWeights |-> Some(weightMap),
     absoluteChanges |-> Some(AbsoluteChanges(origWeights, weightMap)),
     newSupplierScores |-> calculateNewSupplierScores(suppliers, weightMap),
     error |-> NoError]

\* runSensitivityAnalysis clearing the stored result on a validation error.
runSensitivityAnalysisClearing(st, categories, target, goal, suppliers) ==
    IF target = "" \/ Len(SelectedOf(categories)) < 2
    THEN [st EXCEPT !.error = "Please select a target category to optimize",
                    !.newWeights = Null, !.absoluteChanges = Null]
    ELSE SensitivityResult(OrigWeights(categories),
                           WeightMapOf(OrigWeights(categories), target, goal,
                                       TotalOtherWeight(categories, target)),
                           suppliers)

\* runSensitivityAnalysis applied to the result cells st, under the given
\* categories, target, goal and supplier scores.
runSensitivityAnalysis(st, categories, target, goal, suppliers) ==
    IF target = ""
    THEN [st EXCEPT !.error = "Please select a target category to optimize"]
    ELSE IF Len(SelectedOf(categories)) < 2
    THEN [st EXCEPT !.error = "Please select at least 2 categories for the analysis"]
    ELSE SensitivityResult(OrigWeights(categories),
                           WeightMapOf(OrigWeights(categories), target, goal,
                                       TotalOtherWeight(categories, target)),
                           suppliers)

SA_DataSets == {DS1, DS5}

SA_SupplierChoices == {"Supplier"}

SA_CategoryChoices == {"Time", "Quality", "Price"}

\* The categories whose slider is moved.
SA_SliderCategories == {"Quality", "Price"}

\* Slider positions (the slider moves in steps of 0.01 between 0 and 1).
SA_SliderChoices == {Num(0), Num(1)}

SA_GoalChoices == {"maximize", "minimize"}

\* totalWeight, kept by useEffect[categories].
sa_totalWeight == SelectedTotal(sa_categories)

\* useState initial values.
SA_Unmounted ==
    /\ sa_categories = <<>>
    /\ sa_supplierColumn = ""
    /\ sa_targetCategory = ""
    /\ sa_optimizationGoal = "maximize"
    /\ sa_suppliers = <<>>
    /\ sa_originalWeights = <<>>
    /\ sa_newWeights = Null
    /\ sa_absoluteChanges = Null
    /\ sa_newSupplierScores = <<>>
    /\ sa_error = NoError

\* useState initial values followed by the mount effects.
SA_Init ==
    /\ sa_categories = InitialCategories(excelData)
    /\ sa_supplierColumn = IF Len(excelData.headers) = 1 THEN excelData.headers[1] ELSE ""
    /\ sa_targetCategory = ""
    /\ sa_optimizationGoal = "maximize"
    /\ sa_suppliers = <<>>
    /\ sa_originalWeights = <<>>
    /\ sa_newWeights = Null
    /\ sa_absoluteChanges = Null
    /\ sa_newSupplierScores = <<>>
    /\ sa_error = NoError

\* A new dataset arrives while SensitivityAnalysis is mounted.
SA_ExcelDataChange ==
    /\ \E ds \in SA_DataSets \ {excelData} :
          /\ excelData' = ds
          /\ sa_categories' = InitialCategories(ds)
          /\ sa_supplierColumn' = IF Len(ds.headers) = 1 THEN ds.headers[1] ELSE sa_supplierColumn
          /\ sa_suppliers' = SuppliersEffect(ds, sa_supplierColumn', InitialCategories(ds), sa_suppliers)
    /\ sa_newWeights' = Null
    /\ sa_absoluteChanges' = Null
    /\ sa_error' = NoError
    /\ UNCHANGED <<sa_targetCategory, sa_optimizationGoal, sa_originalWeights,
                   sa_newSupplierScores>>
    /\ UNCHANGED outsideSA

SA_SetSupplierColumn ==
    /\ \E h \in SA_SupplierChoices :
          /\ Includes(excelData.headers, h)
          /\ sa_supplierColumn' = h
          /\ sa_suppliers' = SuppliersEffect(excelData, h, sa_categories, sa_suppliers)
    /\ UNCHANGED <<excelData, sa_categories, sa_targetCategory, sa_optimizationGoal,
                   sa_originalWeights, sa_newWeights, sa_absoluteChanges,
                   sa_newSupplierScores, sa_error>>
    /\ UNCHANGED outsideSA

\* The categories become cs; useEffect[..., categories] recomputes the
\* supplier scores.
SA_CategoriesBecome(cs) ==
    /\ sa_categories' = cs
    /\ sa_suppliers' = SuppliersEffect(excelData, sa_supplierColumn, cs, sa_suppliers)
    /\ UNCHANGED <<excelData, sa_supplierColumn, sa_targetCategory, sa_optimizationGoal,
                   sa_originalWeights, sa_newWeights, sa_absoluteChanges,
                   sa_newSupplierScores, sa_error>>
    /\ UNCHANGED outsideSA

SA_handleCategoryToggle ==
    \E c \in SA_CategoryChoices :
       /\ \E i \in DOMAIN sa_categories : sa_categories[i].category = c
       /\ SA_CategoriesBecome(handleCategoryToggle(sa_categories, c))

\* A weight slider is shown for every selected category.
SA_handleWeightChange ==
    \E c \in SA_SliderCategories, w \in SA_SliderChoices :
       /\ c \in SelectedNames(sa_categories)
       /\ SA_CategoriesBecome(handleWeightChange(sa_categories, c, w))

SA_resetToEqualWeights ==
    /\ Len(SelectedOf(sa_categories)) > 0
    /\ SA_CategoriesBecome(resetToEqualWeights(sa_categories))

\* The target select offers the selected categories.
SA_handleTargetCategoryChange ==
    /\ \E c \in SelectedNames(sa_categories) : sa_targetCategory' = c
    /\ UNCHANGED <<excelData, sa_categories, sa_supplierColumn, sa_optimizationGoal,
                   sa_suppliers, sa_originalWeights, sa_newWeights, sa_absoluteChanges,
                   sa_newSupplierScores, sa_error>>
    /\ UNCHANGED outsideSA

SA_handleOptimizationGoalChange ==
    /\ \E g \in SA_GoalChoices : sa_optimizationGoal' = g
    /\ UNCHANGED <<excelData, sa_categories, sa_supplierColumn, sa_targetCategory,
                   sa_suppliers, sa_originalWeights, sa_newWeights, sa_absoluteChanges,
                   sa_newSupplierScores, sa_error>>
    /\ UNCHANGED outsideSA

\* |totalWeight - 1| > 0.001 disables the run button.
WeightsSumToOne(total) == RLe(RAbs(RSub(total, Num(1))), Rat(1, 1000))

SA_RunEnabled ==
    /\ sa_targetCategory # ""
    /\ Len(SelectedOf(sa_categories)) >= 2
    /\ WeightsSumToOne(sa_totalWeight)
    /\ sa_supplierColumn # ""

SA_State ==
    [originalWeights |-> sa_originalWeights,
     newWeights |-> sa_newWeights,
     absoluteChanges |-> sa_absoluteChanges,
     newSupplierScores |-> sa_newSupplierScores,
     error |-> sa_error]

SA_Becomes(r) ==
    /\ sa_originalWeights' = r.originalWeights
    /\ sa_newWeights' = r.newWeights
    /\ sa_absoluteChanges' = r.absoluteChanges
    /\ sa_newSupplierScores' = r.newSupplierScores
    /\ sa_error' = r.error

SA_runSensitivityAnalysis ==
    /\ SA_RunEnabled
    /\ SA_Becomes(runSensitivityAnalysis(SA_State, sa_categories, sa_targetCategory,
                                         sa_optimizationGoal, sa_suppliers))
    /\ UNCHANGED <<excelData, sa_categories, sa_supplierColumn, sa_targetCategory,
                   sa_optimizationGoal, sa_suppliers>>
    /\ UNCHANGED outsideSA

\* runSensitivityAnalysis entered with a configuration its button does not
\* let through: no target category or fewer than two selected categories.
SA_runSensitivityAnalysisUnconfigured ==
    /\ sa_targetCategory = "" \/ Len(SelectedOf(sa_categories)) < 2
    /\ SA_Becomes(runSensitivityAnalysis(SA_State, sa_categories, sa_targetCategory,
                                         sa_optimizationGoal, sa_suppliers))
    /\ UNCHANGED <<excelData, sa_categories, sa_supplierColumn, sa_targetCategory,
                   sa_optimizationGoal, sa_suppliers>>
    /\ UNCHANGED outsideSA

SA_Next ==
    \/ SA_ExcelDataChange
    \/ SA_SetSupplierColumn
    \/ SA_handleCategoryToggle
    \/ SA_handleWeightChange
    \/ SA_resetToEqualWeights
    \/ SA_handleTargetCategoryChange
    \/ SA_handleOptimizationGoalChange
    \/ SA_runSensitivityAnalysis


(***************************************************************************)
(* AlternativeMethods                                                      *)
(***************************************************************************)
\* criteriaWeights after useEffect[selectedVariables]: equal weights.
EqualWeights(selectedVariables) ==
    [i \in DOMAIN selectedVariables |->
        [criterion |-> selectedVariables[i], weight |-> Rat(1, Len(selectedVariables))]]

\* criteriaWeights.reduce((total, cw) => total + cw.weight, 0)
WeightTotal(criteriaWeights) ==
    RSum([i \in DOMAIN criteriaWeights |-> criteriaWeights[i].weight])

AM_SetWeight(criteriaWeights, criterion, value) ==
    [i \in DOMAIN criteriaWeights |->
        IF criteriaWeights[i].criterion = criterion
        THEN [criteriaWeights[i] EXCEPT !.weight = value]
        ELSE criteriaWeights[i]]

\* Mutation of AM_handleWeightChange: the slider value taken as it comes.
AM_handleWeightChangeUncapped(criteriaWeights, criterion, value) ==
    AM_SetWeight(criteriaWeights, criterion, value)

\* handleWeightChange of AlternativeMethods.
AM_handleWeightChange(criteriaWeights, criterion, value) ==
    IF ~\E i \in DOMAIN criteriaWeights : criteriaWeights[i].criterion = criterion
    THEN criteriaWeights
    ELSE AM_SetWeight(criteriaWeights, criterion,
                      ClampedWeight((CHOOSE cw \in Range(criteriaWeights) :
                                        cw.criterion = criterion).weight,
                                    value, WeightTotal(criteriaWeights)))

\* Each non-zero weight grows by its share of the remaining weight.
Redistributed(criteriaWeights, remaining, totalNonZero) ==
    [i \in DOMAIN criteriaWeights |->
        IF criteriaWeights[i].weight = Num(0) THEN criteriaWeights[i]
        ELSE [criteriaWeights[i] EXCEPT
                 !.weight = RAdd(@, RMul(remaining, RDiv(@, totalNonZero)))]]

\* distributeRemainingWeight: the criteriaWeights it leaves.
distributeRemainingWeight(criteriaWeights) ==
    IF Len(criteriaWeights) = 0 THEN criteriaWeights
    ELSE IF WeightTotal(criteriaWeights) = Num(1) \/ WeightTotal(criteriaWeights) = Num(0)
    THEN criteriaWeights
    ELSE IF \A i \in DOMAIN criteriaWeights : ~RGt(criteriaWeights[i].weight, Num(0))
    THEN [i \in DOMAIN criteriaWeights |->
             [criteriaWeights[i] EXCEPT !.weight = Rat(1, Len(criteriaWeights))]]
    ELSE Redistributed(criteriaWeights, RSub(Num(1), WeightTotal(criteriaWeights)),
                       RSum([i \in DOMAIN criteriaWeights |->
                               IF RGt(criteriaWeights[i].weight, Num(0))
                               THEN criteriaWeights[i].weight ELSE Num(0)]))

\* resetToEqualWeights of AlternativeMethods.
AM_resetToEqualWeights(criteriaWeights, selectedVariables) ==
    IF Len(selectedVariables) = 0 THEN criteriaWeights
    ELSE [i \in DOMAIN criteriaWeights |->
             [criteriaWeights[i] EXCEPT !.weight = Rat(1, Len(selectedVariables))]]

\* getNormalizedWeights: the array as a map (a later entry overrides).
getNormalizedWeights(criteriaWeights) ==
    [c \in {cw.criterion : cw \in Range(criteriaWeights)} |->
        criteriaWeights[CHOOSE i \in DOMAIN criteriaWeights :
                           /\ criteriaWeights[i].criterion = c
                           /\ \A j \in DOMAIN criteriaWeights :
                                 criteriaWeights[j].criterion = c => j <= i].weight]

\* row[evaluationColumnIndex]?.toString() || '' for every row
SupplierNames(ds, idx) ==
    [r \in DOMAIN ds.data |->
        IF ds.data[r][idx].k = "nil" THEN "" ELSE CellToString(ds.data[r][idx])]

\* The parsed cells of a column with the NaN ones filtered out: the values
\* move up into the places of the rows that were dropped.
RECURSIVE NumericValues(_, _, _)
NumericValues(data, n, col) ==
    IF n = 0 THEN <<>>
    ELSE NumericValues(data, n - 1, col)
         \o (IF IsNaN(ParseCell(data[n][col], "0")) THEN <<>>
             ELSE <<ParseCell(data[n][col], "0")>>)

\* criteriaData
CriteriaData(ds, selectedVariables) ==
    [c \in Range(selectedVariables) |->
        NumericValues(ds.data, Len(ds.data), IndexOf(ds.headers, c))]

\* The error of the first selected criterion that is absent or holds no
\* numeric value, NoError when there is none.
RECURSIVE CriteriaError(_, _)
CriteriaError(ds, selectedVariables) ==
    IF selectedVariables = <<>> THEN NoError
    ELSE IF IndexOf(ds.headers, Head(selectedVariables)) = 0
    THEN "Criterion '" \o Head(selectedVariables) \o "' not found."
    ELSE IF NumericValues(ds.data, Len(ds.data),
                          IndexOf(ds.headers, Head(selectedVariables))) = <<>>
    THEN "Criterion '" \o Head(selectedVariables) \o "' contains no numeric data."
    ELSE CriteriaError(ds, Tail(selectedVariables))

\* The comparator (a, b) => b.score - a.score; a NaN difference counts as 0.
ScoreCompare(a, b) ==
    IF IsNaN(RSub(b.score, a.score)) THEN 0 ELSE Sign(RSub(b.score, a.score)[1])

\* The indices i < suppliers.length whose value in criterion c is valid.
ValidCriteria(selectedVariables, criteriaData, i) ==
    {j \in DOMAIN selectedVariables :
        i <= Len(criteriaData[selectedVariables[j]])
        /\ ~IsNaN(criteriaData[selectedVariables[j]][i])}

\* totalScore / validCount of row i
BaselineScore(selectedVariables, criteriaData, weights, i) ==
    RDiv(RSum([j \in DOMAIN selectedVariables |->
                 IF j \in ValidCriteria(selectedVariables, criteriaData, i)
                 THEN RMul(criteriaData[selectedVariables[j]][i], weights[selectedVariables[j]])
                 ELSE Num(0)]),
         Num(Cardinality(ValidCriteria(selectedVariables, criteriaData, i))))

RECURSIVE BaselineScores(_, _, _, _, _)
BaselineScores(suppliers, n, selectedVariables, criteriaData, weights) ==
    IF n = 0 THEN <<>>
    ELSE BaselineScores(suppliers, n - 1, selectedVariables, criteriaData, weights)
         \o (IF ValidCriteria(selectedVariables, criteriaData, n) = {} THEN <<>>
             ELSE <<[name |-> suppliers[n],
                     score |-> BaselineScore(selectedVariables, criteriaData, weights, n)]>>)

\* rankings[supplier.name] = index + 1, a later entry overriding an earlier
\* one of the same name.
RankingsOf(sorted) ==
    [name \in {e.name : e \in Range(sorted)} |->
        CHOOSE i \in DOMAIN sorted :
           sorted[i].name = name /\ \A j \in DOMAIN sorted : sorted[j].name = name => j <= i]

calculateOriginalRankings(suppliers, selectedVariables, criteriaData, weights) ==
    RankingsOf(StableSort(BaselineScores(suppliers, Len(suppliers), selectedVariables,
                                         criteriaData, weights),
                          ScoreCompare))

\* The TOPSIS score of the value at index i of values.  The values are
\* divided by the root of their sum of squares; that divisor cancels in
\* |v - anti| / (|v - ideal| + |v - anti| || 1), which is computed here on the
\* values themselves.  An index past the end reads undefined and scores NaN.
TopsisScore(values, i) ==
    IF i > Len(values) THEN NaN
    ELSE IF RMaxSeq(values) = RMinSeq(values) THEN Num(0)
    ELSE RDiv(RSub(values[i], RMinSeq(values)), RSub(RMaxSeq(values), RMinSeq(values)))

\* The Euclidean score 1 - |normalizedValue - 1| of the value at index i.
EuclideanScore(values, i) ==
    IF i > Len(values) THEN NaN
    ELSE IF RMaxSeq(values) = RMinSeq(values) THEN Rat(1, 2)
    ELSE RSub(Num(1),
              RAbs(RSub(RDiv(RSub(values[i], RMinSeq(values)),
                             RSub(RMaxSeq(values), RMinSeq(values))),
                        Num(1))))

CriterionScore(method, values, i) ==
    IF method = "topsis" THEN TopsisScore(values, i) ELSE EuclideanScore(values, i)

\* The last row that carries the identifier of row i: its scores are the ones
\* left in supplierCriteriaScores[suppliers[i]].
LastRowNamed(suppliers, i) ==
    CHOOSE r \in DOMAIN suppliers :
       suppliers[r] = suppliers[i] /\ \A q \in DOMAIN suppliers : suppliers[q] = suppliers[i] => q <= r

\* supplierCriteriaScores[suppliers[i]]
CriteriaScoresOf(method, suppliers, criteriaData, i) ==
    [c \in DOMAIN criteriaData |->
        CriterionScore(method, criteriaData[c], LastRowNamed(suppliers, i))]

WeightedSum(selectedVariables, scores, weights) ==
    RSum([j \in DOMAIN selectedVariables |->
            RMul(scores[selectedVariables[j]], weights[selectedVariables[j]])])

WeightedDistance(selectedVariables, scores, weights) ==
    RSum([j \in DOMAIN selectedVariables |->
            RMul(RSub(Num(1), scores[selectedVariables[j]]), weights[selectedVariables[j]])])

\* One entry of supplierScores.
SupplierEntry(method, supplier, selectedVariables, scores, weights) ==
    IF method = "topsis"
    THEN [supplier |-> supplier,
          score |-> WeightedSum(selectedVariables, scores, weights),
          criteriaScores |-> scores]
    ELSE [supplier |-> supplier,
          score |-> WeightedSum(selectedVariables, scores, weights),
          distance |-> WeightedDistance(selectedVariables, scores, weights),
          criteriaScores |-> scores]

SupplierScores(method, suppliers, selectedVariables, criteriaData, weights) ==
    [i \in DOMAIN suppliers |->
        SupplierEntry(method, suppliers[i], selectedVariables,
                      CriteriaScoresOf(method, suppliers, criteriaData, i), weights)]

\* The orders supplierScores.sort can leave.  With finite scores the
\* comparator is consistent and the sort is stable; a NaN score makes the
\* comparator inconsistent and the order implementation-defined.
SortedByScore(scores) ==
    IF \E i \in DOMAIN scores : IsNaN(scores[i].score)
    THEN {[i \in DOMAIN scores |-> scores[p[i]]] :
             p \in {q \in [DOMAIN scores -> DOMAIN scores] :
                       \A a, b \in DOMAIN scores : q[a] = q[b] => a = b}}
    ELSE {StableSort(scores, ScoreCompare)}

\* Mutation of OriginalRankOf: no alternative finds its baseline rank.
OriginalRankOfNone(originalRanks, supplier) == 0

\* originalRanks[supplier.supplier] || 0
OriginalRankOf(originalRanks, supplier) ==
    IF supplier \in DOMAIN originalRanks THEN originalRanks[supplier] ELSE 0

EntryWithRank(entry, originalRank, newRank) ==
    IF "distance" \in DOMAIN entry
    THEN [supplier |-> entry.supplier, score |-> entry.score, distance |-> entry.distance,
          criteriaScores |-> entry.criteriaScores,
          originalRank |-> originalRank, rankChange |-> originalRank - newRank]
    ELSE [supplier |-> entry.supplier, score |-> entry.score,
          criteriaScores |-> entry.criteriaScores,
          originalRank |-> originalRank, rankChange |-> originalRank - newRank]

\* rankedSuppliersWithChanges
WithRankChanges(sorted, originalRanks) ==
    [i \in DOMAIN sorted |->
        EntryWithRank(sorted[i], OriginalRankOf(originalRanks, sorted[i].supplier), i)]

AnalysisResult(method, suppliers, selectedVariables, ranked, evaluationColumn, weights) ==
    [method |-> method,
     data |-> [suppliers |-> suppliers, criteria |-> selectedVariables,
               rankedSuppliers |-> ranked],
     evaluationColumn |-> evaluationColumn,
     weights |-> weights]

RankingFailure(message) ==
    [ok |-> FALSE, error |-> message, result |-> <<>>, originalRankings |-> <<>>]

\* The results a ranking of the extracted data can return, one per order the
\* sort can leave.
RankingOutcomes(method, suppliers, selectedVariables, criteriaData, weights, evaluationColumn, originalRanks) ==
    {[ok |-> TRUE, error |-> NoError,
      result |-> AnalysisResult(method, suppliers, selectedVariables,
                                WithRankChanges(sorted, originalRanks),
                                evaluationColumn, weights),
      originalRankings |-> originalRanks] :
        sorted \in SortedByScore(SupplierScores(method, suppliers, selectedVariables,
                                                criteriaData, weights))}

RankingOf(method, suppliers, selectedVariables, criteriaData, weights, evaluationColumn) ==
    RankingOutcomes(method, suppliers, selectedVariables, criteriaData, weights,
                    evaluationColumn,
                    calculateOriginalRankings(suppliers, selectedVariables,
                                              criteriaData, weights))

\* performTOPSIS / performEuclideanDistance: the set of outcomes.
performRanking(method, ds, evaluationColumn, selectedVariables, criteriaWeights) ==
    IF evaluationColumn = "" \/ Len(selectedVariables) = 0
    THEN {RankingFailure("Please select the supplier column and at least one criterion.")}
    ELSE IF IndexOf(ds.headers, evaluationColumn) = 0
    THEN {RankingFailure("Evaluation column '" \o evaluationColumn \o "' not found.")}
    ELSE IF CriteriaError(ds, selectedVariables) # NoError
    THEN {RankingFailure(CriteriaError(ds, selectedVariables))}
    ELSE RankingOf(method, SupplierNames(ds, IndexOf(ds.headers, evaluationColumn)),
                   selectedVariables, CriteriaData(ds, selectedVariables),
                   getNormalizedWeights(criteriaWeights), evaluationColumn)

\* The weights performTOPSIS / performEuclideanDistance read when handleRun
\* calls them: distributeRemainingWeight has only scheduled its update, so
\* they are the criteriaWeights of the render handleRun belongs to.
WeightsReadByRun(stateWeights, distributed) == stateWeights

\* handleRun applied to the cells st: the set of states it can leave.
handleRun(st, method, ds, evaluationColumn, selectedVariables) ==
    {IF o.ok
     THEN [criteriaWeights |-> distributeRemainingWeight(st.criteriaWeights),
           result |-> Some(o.result),
           originalRankings |-> o.originalRankings,
           error |-> NoError]
     ELSE [criteriaWeights |-> distributeRemainingWeight(st.criteriaWeights),
           result |-> st.result,
           originalRankings |-> st.originalRankings,
           error |-> o.error] :
        o \in performRanking(method, ds, evaluationColumn, selectedVariables,
                             WeightsReadByRun(st.criteriaWeights,
                                              distributeRemainingWeight(st.criteriaWeights)))}

AM_DataSets == {DS3, DS4, DS5, DS9}

AM_MethodChoices == {"topsis", "euclidean"}

AM_EvaluationChoices == {"Supplier"}

AM_CriterionChoices == {"Quality", "Price"}

AM_SliderChoices == {Num(0), Rat(1, 2)}

\* totalWeight, kept by useEffect[criteriaWeights].
am_totalWeight == WeightTotal(am_criteriaWeights)

\* useState initial values followed by the mount effects.
AM_Init ==
    /\ am_selectedMethod = "topsis"
    /\ am_selectedVariables = <<>>
    /\ am_evaluationColumn = ""
    /\ am_criteriaWeights = <<>>
    /\ am_result = Null
    /\ am_originalRankings = <<>>
    /\ am_error = NoError

\* A new dataset arrives while AlternativeMethods is mounted.
AM_ExcelDataChange ==
    /\ \E ds \in AM_DataSets \ {excelData} : excelData' = ds
    /\ am_selectedVariables' = <<>>
    /\ am_evaluationColumn' = ""
    /\ am_criteriaWeights' = <<>>
    /\ am_result' = Null
    /\ am_error' = NoError
    /\ UNCHANGED <<am_selectedMethod, am_originalRankings>>
    /\ UNCHANGED outsideAM

AM_handleMethodChange ==
    /\ \E m \in AM_MethodChoices : am_selectedMethod' = m
    /\ am_result' = Null
    /\ UNCHANGED <<excelData, am_selectedVariables, am_evaluationColumn, am_criteriaWeights,
                   am_originalRankings, am_error>>
    /\ UNCHANGED outsideAM

\* The criteria list offers every header but the evaluation column;
\* useEffect[selectedVariables] then resets the weights to equal ones.
AM_handleVariableToggle ==
    /\ \E v \in AM_CriterionChoices :
          /\ Includes(excelData.headers, v)
          /\ v # am_evaluationColumn
          /\ am_selectedVariables' = Toggle(am_selectedVariables, v)
    /\ am_criteriaWeights' = EqualWeights(am_selectedVariables')
    /\ UNCHANGED <<excelData, am_selectedMethod, am_evaluationColumn, am_result,
                   am_originalRankings, am_error>>
    /\ UNCHANGED outsideAM

AM_handleEvaluationColumnChange ==
    /\ \E h \in AM_EvaluationChoices :
          Includes(excelData.headers, h) /\ am_evaluationColumn' = h
    /\ UNCHANGED <<excelData, am_selectedMethod, am_selectedVariables, am_criteriaWeights,
                   am_result, am_originalRankings, am_error>>
    /\ UNCHANGED outsideAM

AM_WeightsBecome(ws) ==
    /\ am_criteriaWeights' = ws
    /\ UNCHANGED <<excelData, am_selectedMethod, am_selectedVariables, am_evaluationColumn,
                   am_result, am_originalRankings, am_error>>
    /\ UNCHANGED outsideAM

\* The slider of a criterion is enabled while the criterion is selected.
AM_WeightChange ==
    \E v \in AM_CriterionChoices, w \in AM_SliderChoices :
       /\ Includes(am_selectedVariables, v)
       /\ v # am_evaluationColumn
       /\ AM_WeightsBecome(AM_handleWeightChange(am_criteriaWeights, v, w))

\* The Normalize button, enabled while the total is off 1.
AM_distributeRemainingWeight ==
    /\ Len(am_selectedVariables) # 0
    /\ ~RLt(RAbs(RSub(am_totalWeight, Num(1))), Rat(1, 1000))
    /\ AM_WeightsBecome(distributeRemainingWeight(am_criteriaWeights))

AM_ResetWeights ==
    /\ Len(am_selectedVariables) # 0
    /\ AM_WeightsBecome(AM_resetToEqualWeights(am_criteriaWeights, am_selectedVariables))

AM_RunEnabled == Len(am_selectedVariables) # 0 /\ am_evaluationColumn # ""

AM_State ==
    [criteriaWeights |-> am_criteriaWeights,
     result |-> am_result,
     originalRankings |-> am_originalRankings,
     error |-> am_error]

AM_Becomes(r) ==
    /\ am_criteriaWeights' = r.criteriaWeights
    /\ am_result' = r.result
    /\ am_originalRankings' = r.originalRankings
    /\ am_error' = r.error

AM_handleRun ==
    /\ AM_RunEnabled
    /\ \E r \in handleRun(AM_State, am_selectedMethod, excelData, am_evaluationColumn,
                          am_selectedVariables) : AM_Becomes(r)
    /\ UNCHANGED <<excelData, am_selectedMethod, am_selectedVariables, am_evaluationColumn>>
    /\ UNCHANGED outsideAM

AM_Next ==
    \/ AM_ExcelDataChange
    \/ AM_handleMethodChange
    \/ AM_handleVariableToggle
    \/ AM_handleEvaluationColumnChange
    \/ AM_WeightChange
    \/ AM_distributeRemainingWeight
    \/ AM_ResetWeights
    \/ AM_handleRun



(***************************************************************************)
(* CorrelationAnalysis                                                     *)
(***************************************************************************)
\* A real of the form sign * sqrt(square), square a non-negative rational:
\* the exact value of a quotient by a square root.
SignedRoot(sign, square) == [sign |-> IF square = Num(0) THEN 0 ELSE sign, square |-> square]

\* Math.sqrt, defined here on the squares of rationals with numerator and
\* denominator up to MaxRoot only.
MaxRoot == 100

RSqrt(x) ==
    Rat(CHOOSE r \in 0..MaxRoot : r * r = x[1], CHOOSE r \in 1..MaxRoot : r * r = x[2])

\* Math.log, defined here at 1 only.
RLn(x) == CHOOSE y \in {Num(0)} : x = Num(1)

\* x to an integral power k >= 0.
RECURSIVE RPow(_, _)
RPow(x, k) == IF k = 0 THEN Num(1) ELSE RMul(x, RPow(x, k - 1))

\* Math.pow(value, lambda) for a positive value: integral and half-integral
\* exponents.
MathPow(value, lambda) ==
    IF lambda[2] = 1
    THEN (IF lambda[1] >= 0 THEN RPow(value, lambda[1])
          ELSE RDiv(Num(1), RPow(value, -lambda[1])))
    ELSE IF lambda[1] >= 0 THEN RPow(RSqrt(value), lambda[1])
    ELSE RDiv(Num(1), RPow(RSqrt(value), -lambda[1]))

\* powerTransformations: the transform of the entry with this lambda.
PowerTransform(lambda, value) ==
    IF lambda = Num(-2) THEN (IF RLe(value, Num(0)) THEN Num(0) ELSE RDiv(Num(1), RMul(value, value)))
    ELSE IF lambda = Num(-1) THEN (IF RLe(value, Num(0)) THEN Num(0) ELSE RDiv(Num(1), value))
    ELSE IF lambda = Rat(-1, 2) THEN (IF RLe(value, Num(0)) THEN Num(0) ELSE RDiv(Num(1), RSqrt(value)))
    ELSE IF lambda = Num(0) THEN (IF RLe(value, Num(0)) THEN Num(0) ELSE RLn(value))
    ELSE IF lambda = Rat(1, 2) THEN (IF RLt(value, Num(0)) THEN Num(0) ELSE RSqrt(value))
    ELSE IF lambda = Num(1) THEN value
    ELSE IF lambda = Num(2) THEN RMul(value, value)
    ELSE RMul(value, RMul(value, value))

commonLambdas == <<Num(-2), Num(-1), Rat(-1, 2), Num(0), Rat(1, 2), Num(1), Num(2), Num(3)>>

lambdaRange ==
    <<Num(-2), Rat(-3, 2), Num(-1), Rat(-1, 2), Num(0), Rat(1, 2), Num(1), Rat(3, 2), Num(2)>>

\* The closest common lambda after looking at the first k of them.
RECURSIVE ClosestLambda(_, _)
ClosestLambda(lambda, k) ==
    IF k = 0 THEN Num(1)
    ELSE IF RLt(RAbs(RSub(lambda, commonLambdas[k])),
                RAbs(RSub(lambda, ClosestLambda(lambda, k - 1))))
         THEN commonLambdas[k]
         ELSE ClosestLambda(lambda, k - 1)

roundLambda(lambda) == ClosestLambda(lambda, Len(commonLambdas))

\* findOptimalLambda: 1 when a value is not positive.  Otherwise the winner
\* is the member of lambdaRange with the largest Box-Cox log-likelihood, a
\* comparison of real logarithms the model does not compute: any member of
\* lambdaRange may win.
findOptimalLambda(values) ==
    IF \E i \in DOMAIN values : RLe(values[i], Num(0)) THEN {Num(1)}
    ELSE Range(lambdaRange)

\* applyPowerTransformation with the general formula for every lambda, the
\* entries of powerTransformations left aside.
applyPowerTransformationWithoutTable(values, lambda) ==
    [i \in DOMAIN values |->
        IF RLe(values[i], Num(0)) THEN Num(0)
        ELSE IF lambda = Num(0) THEN RLn(values[i])
        ELSE RDiv(RSub(MathPow(values[i], lambda), Num(1)), lambda)]

applyPowerTransformation(values, lambda) ==
    IF Includes(commonLambdas, lambda)
    THEN [i \in DOMAIN values |-> PowerTransform(lambda, values[i])]
    ELSE [i \in DOMAIN values |->
             IF RLe(values[i], Num(0)) THEN Num(0)
             ELSE RDiv(RSub(MathPow(values[i], lambda), Num(1)), lambda)]

\* sum of (val - mean)^k / n
CentralMoment(values, mean, k) ==
    RDiv(RSum([i \in DOMAIN values |-> RPow(RSub(values[i], mean), k)]), Num(Len(values)))

\* |skewness| < 1 && |kurtosis| < 1, on the squares where a root is involved.
IsNormal(skewness, kurtosis) ==
    RLt(skewness.square, Num(1)) /\ RLt(RAbs(kurtosis), Num(1))

\* skewness and kurtosis from the central moments; both 0 when stdDev is 0.
SkewnessOf(m2, m3) ==
    IF RGt(m2, Num(0))
    THEN SignedRoot(Sign(m3[1]), RDiv(RMul(m3, m3), RPow(m2, 3)))
    ELSE SignedRoot(0, Num(0))

KurtosisOf(m2, m4) ==
    IF RGt(m2, Num(0)) THEN RSub(RDiv(m4, RMul(m2, m2)), Num(3)) ELSE Num(0)

StatsRecord(values, mean, m2, skewness, kurtosis, optimalLambda) ==
    [mean |-> mean,
     stdDev |-> SignedRoot(1, m2),
     min |-> RMinSeq(values),
     max |-> RMaxSeq(values),
     skewness |-> skewness,
     kurtosis |-> kurtosis,
     isNormalDistributed |-> IsNormal(skewness, kurtosis),
     optimalLambda |-> optimalLambda,
     roundedLambda |-> roundLambda(optimalLambda)]

\* The lambdas calculateBasicStats can settle on.
OptimalLambdas(values, skewness, kurtosis) ==
    IF ~IsNormal(skewness, kurtosis) /\ ~\E i \in DOMAIN values : RLe(values[i], Num(0))
    THEN findOptimalLambda(values)
    ELSE {Num(1)}

StatsFromMoments(values, mean, m2, skewness, kurtosis) ==
    {StatsRecord(values, mean, m2, skewness, kurtosis, l) :
        l \in OptimalLambdas(values, skewness, kurtosis)}

StatsWithMean(values, mean) ==
    StatsFromMoments(values, mean, CentralMoment(values, mean, 2),
                     SkewnessOf(CentralMoment(values, mean, 2), CentralMoment(values, mean, 3)),
                     KurtosisOf(CentralMoment(values, mean, 2), CentralMoment(values, mean, 4)))

\* calculateBasicStats: the statistics it can return.
calculateBasicStats(values) ==
    IF Len(values) = 0
    THEN {[mean |-> Num(0), stdDev |-> SignedRoot(0, Num(0)), min |-> Num(0), max |-> Num(0),
           skewness |-> SignedRoot(0, Num(0)), kurtosis |-> Num(0),
           isNormalDistributed |-> FALSE, optimalLambda |-> Num(1), roundedLambda |-> Num(1)]}
    ELSE StatsWithMean(values, RDiv(RSum(values), Num(Len(values))))

MinLen(x, y) == IF Len(x) < Len(y) THEN Len(x) ELSE Len(y)

\* sum over the first n indices of (x[i] - xMean) * (y[i] - yMean)
SumOfProducts(x, xMean, y, yMean, n) ==
    RSum([i \in 1..n |-> RMul(RSub(x[i], xMean), RSub(y[i], yMean))])

\* numerator / Math.sqrt(xSumSquaredDiff * ySumSquaredDiff)
PearsonQuotient(numerator, xSumSquaredDiff, ySumSquaredDiff) ==
    IF xSumSquaredDiff = Num(0) \/ ySumSquaredDiff = Num(0) THEN SignedRoot(0, Num(0))
    ELSE SignedRoot(Sign(numerator[1]),
                    RDiv(RMul(numerator, numerator), RMul(xSumSquaredDiff, ySumSquaredDiff)))

\* calculatePearsonCorrelation with the deviations taken from 0 instead of
\* the means.
PearsonAboutZero(x, xMean, y, yMean, n) ==
    PearsonQuotient(SumOfProducts(x, Num(0), y, Num(0), n),
                    SumOfProducts(x, Num(0), x, Num(0), n),
                    SumOfProducts(y, Num(0), y, Num(0), n))

PearsonWithMeans(x, xMean, y, yMean, n) ==
    PearsonQuotient(SumOfProducts(x, xMean, y, yMean, n),
                    SumOfProducts(x, xMean, x, xMean, n),
                    SumOfProducts(y, yMean, y, yMean, n))

\* calculatePearsonCorrelation: each mean is the sum of the whole array
\* divided by n, the shorter of the two lengths.
calculatePearsonCorrelation(x, y) ==
    IF MinLen(x, y) = 0 THEN SignedRoot(0, Num(0))
    ELSE PearsonWithMeans(x, RDiv(RSum(x), Num(MinLen(x, y))),
                          y, RDiv(RSum(y), Num(MinLen(x, y))), MinLen(x, y))

\* t * t for t = r * sqrt(df) / sqrt(1 - r * r); infinite when r * r = 1.
TSquared(r, degreesOfFreedom) ==
    RDiv(RMul(r.square, Num(degreesOfFreedom)), RSub(Num(1), r.square))

\* The band of |t|, compared on the squares.
PValueBand(tt) ==
    IF RLt(tt, Num(1)) THEN Rat(1, 2)
    ELSE IF RLt(tt, Num(4)) THEN Rat(1, 5)
    ELSE IF RLt(tt, Rat(25, 4)) THEN Rat(1, 20)
    ELSE IF RLt(tt, Num(9)) THEN Rat(1, 100)
    ELSE IF RLt(tt, Num(16)) THEN Rat(1, 1000)
    ELSE Rat(1, 10000)

\* calculatePValue without the early return for fewer than one degree of
\* freedom.
calculatePValueOfAnyLength(r, n) == PValueBand(TSquared(r, n - 2))

calculatePValue(r, n) ==
    IF n - 2 < 1 THEN Num(1) ELSE PValueBand(TSquared(r, n - 2))

significanceLevel == Rat(1, 20)

CorrelationResult(coefficient, pValue) ==
    [coefficient |-> coefficient, pValue |-> pValue,
     isSignificant |-> RLe(pValue, significanceLevel)]

CorrelationCell(x, y) ==
    CorrelationResult(calculatePearsonCorrelation(x, y),
                      calculatePValue(calculatePearsonCorrelation(x, y), MinLen(x, y)))

\* The matrix with every cell computed from the two series, the diagonal
\* included.
MatrixOfComputedDiagonal(selectedVariables, transformedData) ==
    [i \in DOMAIN selectedVariables |->
        [j \in DOMAIN selectedVariables |->
            CorrelationCell(transformedData[selectedVariables[i]],
                            transformedData[selectedVariables[j]])]]

\* The matrix handleRun builds from the transformed series.
MatrixOf(selectedVariables, transformedData) ==
    [i \in DOMAIN selectedVariables |->
        [j \in DOMAIN selectedVariables |->
            IF selectedVariables[i] = selectedVariables[j]
            THEN CorrelationResult(SignedRoot(1, Num(1)), Num(0))
            ELSE CorrelationCell(transformedData[selectedVariables[i]],
                                 transformedData[selectedVariables[j]])]]

\* The error of the first selected variable that is absent or holds no
\* numeric value, NoError when there is none.
RECURSIVE VariableError(_, _)
VariableError(ds, selectedVariables) ==
    IF selectedVariables = <<>> THEN NoError
    ELSE IF IndexOf(ds.headers, Head(selectedVariables)) = 0
    THEN "Variable '" \o Head(selectedVariables) \o "' not found in data."
    ELSE IF NumericValues(ds.data, Len(ds.data),
                          IndexOf(ds.headers, Head(selectedVariables))) = <<>>
    THEN "Variable '" \o Head(selectedVariables) \o "' contains no numeric data."
    ELSE VariableError(ds, Tail(selectedVariables))

\* newNumericData
NewNumericData(ds, selectedVariables) ==
    [v \in Range(selectedVariables) |->
        NumericValues(ds.data, Len(ds.data), IndexOf(ds.headers, v))]

\* The newStats extractVariableData can build: one choice of statistics per
\* variable.
NewStats(numericData) ==
    {st \in [DOMAIN numericData -> UNION {calculateBasicStats(numericData[v]) :
                                              v \in DOMAIN numericData}] :
        \A v \in DOMAIN numericData : st[v] \in calculateBasicStats(numericData[v])}

TransformedData(numericData, stats) ==
    [v \in DOMAIN numericData |->
        applyPowerTransformation(numericData[v], stats[v].roundedLambda)]

\* The cells a successful run leaves.
CorrelationState(selectedVariables, numericData, stats) ==
    [correlationMatrix |-> MatrixOf(selectedVariables, TransformedData(numericData, stats)),
     variableStats |-> stats,
     numericData |-> numericData,
     error |-> NoError]

CorrelationOutcomes(selectedVariables, numericData) ==
    {CorrelationState(selectedVariables, numericData, stats) : stats \in NewStats(numericData)}

\* handleRun of CorrelationAnalysis applied to the cells st: the set of
\* states it can leave.
CA_handleRunOutcomes(st, ds, selectedVariables) ==
    IF Len(selectedVariables) < 2
    THEN {[st EXCEPT !.error = "Please select at least two variables for correlation analysis."]}
    ELSE IF VariableError(ds, selectedVariables) # NoError
    THEN {[st EXCEPT !.error = VariableError(ds, selectedVariables)]}
    ELSE CorrelationOutcomes(selectedVariables, NewNumericData(ds, selectedVariables))

CA_DataSets == {DS6, DS7}

CA_VariableChoices == {"Time", "Quality", "Price"}

CA_Init ==
    /\ ca_selectedVariables = <<>>
    /\ ca_correlationMatrix = <<>>
    /\ ca_variableStats = <<>>
    /\ ca_numericData = <<>>
    /\ ca_error = NoError

\* useEffect[excelData]
CA_ExcelDataChange ==
    /\ \E ds \in CA_DataSets : ds # excelData /\ excelData' = ds
    /\ ca_selectedVariables' = <<>>
    /\ ca_correlationMatrix' = <<>>
    /\ ca_variableStats' = <<>>
    /\ ca_numericData' = <<>>
    /\ ca_error' = NoError
    /\ UNCHANGED outsideCA

CA_handleVariableToggle ==
    /\ \E variable \in CA_VariableChoices :
          ca_selectedVariables' = Toggle(ca_selectedVariables, variable)
    /\ UNCHANGED <<excelData, ca_correlationMatrix, ca_variableStats, ca_numericData, ca_error>>
    /\ UNCHANGED outsideCA

\* The run button: disabled with fewer than two selected variables.
CA_RunEnabled == Len(ca_selectedVariables) >= 2

CA_State ==
    [correlationMatrix |-> ca_correlationMatrix,
     variableStats |-> ca_variableStats,
     numericData |-> ca_numericData,
     error |-> ca_error]

CA_Becomes(r) ==
    /\ ca_correlationMatrix' = r.correlationMatrix
    /\ ca_variableStats' = r.variableStats
    /\ ca_numericData' = r.numericData
    /\ ca_error' = r.error

CA_handleRun ==
    /\ CA_RunEnabled
    /\ \E r \in CA_handleRunOutcomes(CA_State, excelData, ca_selectedVariables) : CA_Becomes(r)
    /\ UNCHANGED <<excelData, ca_selectedVariables>>
    /\ UNCHANGED outsideCA

\* handleRun entered with fewer than two selected variables, which its
\* button does not let through.
CA_handleRunUnconfigured ==
    /\ Len(ca_selectedVariables) < 2
    /\ \E r \in CA_handleRunOutcomes(CA_State, excelData, ca_selectedVariables) : CA_Becomes(r)
    /\ UNCHANGED <<excelData, ca_selectedVariables>>
    /\ UNCHANGED outsideCA

CA_Next ==
    \/ CA_ExcelDataChange
    \/ CA_handleVariableToggle
    \/ CA_handleRun

\* No call of calculatePearsonCorrelation under observation.
Pearson_Idle ==
    /\ pearson_x = <<>>
    /\ pearson_y = <<>>
    /\ pearson_coefficient = Null

MaxSeriesLen == 3

MaxSeriesValue == 2

\* The series of 1 to MaxSeriesLen values out of 0..MaxSeriesValue.
SeriesChoices ==
    UNION {[1..n -> {Num(v) : v \in 0..MaxSeriesValue}] : n \in 1..MaxSeriesLen}

Pearson_Init ==
    /\ pearson_x \in SeriesChoices
    /\ pearson_y \in SeriesChoices
    /\ pearson_coefficient = Null

Pearson_Call ==
    /\ pearson_coefficient = Null
    /\ pearson_coefficient' = Some(calculatePearsonCorrelation(pearson_x, pearson_y))
    /\ UNCHANGED <<excelData, edVars, saVars, amVars, caVars, pearson_x, pearson_y,
                   smoothingVars, cellVars, roundVars, powerVars>>

\* No call of exponentialSmoothing under observation.
Smoothing_Idle ==
    /\ smoothing_data = <<>>
    /\ smoothing_alpha = Num(0)
    /\ smoothing_fitted = Null

AlphaSteps == 4

\* The smoothing factors k/AlphaSteps of [0, 1].
SmoothingFactors == {Rat(k, AlphaSteps) : k \in 0..AlphaSteps}

Smoothing_Init ==
    /\ smoothing_data \in SeriesChoices
    /\ smoothing_alpha \in SmoothingFactors
    /\ smoothing_fitted = Null

Smoothing_Call ==
    /\ smoothing_fitted = Null
    /\ smoothing_fitted' = Some(exponentialSmoothing(smoothing_data, smoothing_alpha))
    /\ UNCHANGED <<excelData, edVars, saVars, amVars, caVars, smoothing_data, smoothing_alpha,
                   pearsonVars, cellVars, roundVars, powerVars>>

\* No off-diagonal cell under observation.
Cell_Idle ==
    /\ cell_x = <<>>
    /\ cell_y = <<>>
    /\ cell_result = Null

MaxPairLen == 5

\* transformedData[var1]: the series 1, 2, .., n for n up to MaxPairLen.
FirstSeriesChoices == {[i \in 1..n |-> Num(i)] : n \in 1..MaxPairLen}

\* transformedData[var2]: the series of 1 to MaxPairLen values out of
\* 0..MaxSeriesValue.
SecondSeriesChoices ==
    UNION {[1..n -> {Num(v) : v \in 0..MaxSeriesValue}] : n \in 1..MaxPairLen}

Cell_Init ==
    /\ cell_x \in FirstSeriesChoices
    /\ cell_y \in SecondSeriesChoices
    /\ cell_result = Null

\* The else branch of the matrix loop of handleRun for var1 # var2.
Cell_Compute ==
    /\ cell_result = Null
    /\ cell_result' = Some(CorrelationCell(cell_x, cell_y))
    /\ UNCHANGED <<excelData, edVars, saVars, amVars, caVars, cell_x, cell_y,
                   pearsonVars, smoothingVars, roundVars, powerVars>>

\* No call of roundLambda under observation.
Round_Idle ==
    /\ round_lambda = Num(1)
    /\ round_result = Null

MaxQuarter == 28

\* The lambdas k/4 from -MaxQuarter/4 to MaxQuarter/4.
LambdaChoices == {Rat(k, 4) : k \in (-MaxQuarter)..MaxQuarter}

Round_Init ==
    /\ round_lambda \in LambdaChoices
    /\ round_result = Null

Round_Call ==
    /\ round_result = Null
    /\ round_result' = Some(roundLambda(round_lambda))
    /\ UNCHANGED <<excelData, edVars, saVars, amVars, caVars, round_lambda,
                   pearsonVars, smoothingVars, cellVars, powerVars>>

\* No call of applyPowerTransformation under observation.
Power_Idle ==
    /\ power_values = <<>>
    /\ power_lambda = Num(1)
    /\ power_result = Null

\* The series of 1 to MaxSeriesLen values out of -MaxSeriesValue..1.
SignedSeriesChoices ==
    UNION {[1..n -> {Num(v) : v \in (-MaxSeriesValue)..1}] : n \in 1..MaxSeriesLen}

Power_Init ==
    /\ power_values \in SignedSeriesChoices
    /\ power_lambda \in Range(commonLambdas)
    /\ power_result = Null

Power_Call ==
    /\ power_result = Null
    /\ power_result' = Some(applyPowerTransformation(power_values, power_lambda))
    /\ UNCHANGED <<excelData, edVars, saVars, amVars, caVars, power_values, power_lambda,
                   pearsonVars, smoothingVars, cellVars, roundVars>>


\* The weights the sliders can give: the multiples of 1/WeightSteps in [0, 1].
WeightSteps == 25

GridWeights == {Rat(k, WeightSteps) : k \in 0..WeightSteps}

\* The categories base with the selection sel and, for the selected ones,
\* the slider weights w.
CategoriesWith(base, w, sel) ==
    [i \in DOMAIN base |->
        [category |-> base[i].category,
         weight |-> IF sel[i] THEN w[i] ELSE base[i].weight,
         selected |-> sel[i]]]

\* Every selection of at least two of the categories base whose grid weights
\* sum to 1: the configurations under which the run button is enabled.
RunnableFrom(base) ==
    {cs \in {CategoriesWith(base, w, sel) :
                w \in [DOMAIN base -> GridWeights], sel \in [DOMAIN base -> BOOLEAN]} :
        Len(SelectedOf(cs)) >= 2 /\ SelectedTotal(cs) = Num(1)}

RunnableCategories(ds) == RunnableFrom(InitialCategories(ds))

SR_DataSet == DS3

SR_Categories == RunnableCategories(SR_DataSet)

\* A configuration the checkboxes, sliders and selects can produce, with no
\* analysis run yet.
SR_Init ==
    /\ excelData = SR_DataSet
    /\ sa_categories \in SR_Categories
    /\ sa_supplierColumn \in SA_SupplierChoices
    /\ sa_targetCategory \in {c.category : c \in Range(InitialCategories(SR_DataSet))}
    /\ sa_optimizationGoal \in SA_GoalChoices
    /\ sa_suppliers = SuppliersEffect(excelData, sa_supplierColumn, sa_categories, <<>>)
    /\ sa_originalWeights = <<>>
    /\ sa_newWeights = Null
    /\ sa_absoluteChanges = Null
    /\ sa_newSupplierScores = <<>>
    /\ sa_error = NoError


(***************************************************************************)
(* FileContext and DataGrid: editing the loaded dataset                    *)
(***************************************************************************)
\* array.filter((_, index) => index !== at), at 1-based.
RemoveAt(s, at) == [i \in 1..(Len(s) - 1) |-> IF i < at THEN s[i] ELSE s[i + 1]]

updateCell(ds, rowIndex, colIndex, value) ==
    [ds EXCEPT !.data[rowIndex][colIndex] = value]

\* Array(headers.length).fill('') appended to the rows.
addRow(ds) ==
    [ds EXCEPT !.data = Append(@, [c \in DOMAIN ds.headers |-> StrCell("")])]

addColumn(ds, header) ==
    [headers |-> Append(ds.headers, header),
     data |-> [r \in DOMAIN ds.data |-> Append(ds.data[r], StrCell(""))]]

removeRow(ds, rowIndex) == [ds EXCEPT !.data = RemoveAt(@, rowIndex)]

removeColumn(ds, colIndex) ==
    [headers |-> RemoveAt(ds.headers, colIndex),
     data |-> [r \in DOMAIN ds.data |-> RemoveAt(ds.data[r], colIndex)]]

\* The sheet the grid starts from: unique column names.
GridSheet ==
    [headers |-> <<"Supplier", "Quality">>,
     data |-> << <<StrCell("A"), NumCell(4)>> >>]

MaxGridRows == 2

MaxGridColumns == 3

\* What the user types into the column-name dialog and into a cell.
GridColumnNames == {"Quality", "Price"}

GridCellTexts == {"7"}

\* The analysis components are not mounted while the grid is shown.
FC_Becomes(ds) ==
    /\ excelData' = ds
    /\ UNCHANGED <<edVars, saVars, amVars, caVars, callVars>>

\* handleCellBlur: updateCell(editCell.row, editCell.col, cellValue)
FC_updateCell ==
    \E r \in DOMAIN excelData.data, t \in GridCellTexts :
        \E c \in DOMAIN excelData.data[r] : FC_Becomes(updateCell(excelData, r, c, StrCell(t)))

FC_addRow ==
    /\ Len(excelData.data) < MaxGridRows
    /\ FC_Becomes(addRow(excelData))

\* handleAddColumn: addColumn(newColumnName)
FC_addColumn ==
    /\ Len(excelData.headers) < MaxGridColumns
    /\ \E header \in GridColumnNames : FC_Becomes(addColumn(excelData, header))

FC_removeRow ==
    \E r \in DOMAIN excelData.data : FC_Becomes(removeRow(excelData, r))

FC_removeColumn ==
    \E c \in DOMAIN excelData.headers : FC_Becomes(removeColumn(excelData, c))

FC_Next ==
    \/ FC_updateCell
    \/ FC_addRow
    \/ FC_addColumn
    \/ FC_removeRow
    \/ FC_removeColumn

(***************************************************************************)
(* Specifications: one per analysis route                                  *)
(***************************************************************************)
Unobserved ==
    CA_Init /\ Pearson_Idle /\ Smoothing_Idle /\ Cell_Idle /\ Round_Idle /\ Power_Idle

InitEarlyDetection ==
    excelData \in ED_DataSets /\ ED_Init /\ SA_Unmounted /\ AM_Init /\ Unobserved

SpecEarlyDetection == InitEarlyDetection /\ [][ED_Next]_vars

InitSensitivity == excelData \in SA_DataSets /\ SA_Init /\ ED_Init /\ AM_Init /\ Unobserved

SpecSensitivity == InitSensitivity /\ [][SA_Next]_vars

\* The weight controls of SensitivityAnalysis alone: toggles, sliders, reset
\* and a new dataset.
SA_WeightsNext ==
    \/ SA_ExcelDataChange
    \/ SA_handleCategoryToggle
    \/ SA_handleWeightChange
    \/ SA_resetToEqualWeights

SpecSensitivityWeights == InitSensitivity /\ [][SA_WeightsNext]_vars

\* Toggles, target selections, weight changes and runs on one dataset.
InitSensitivityTarget == excelData = DS1 /\ SA_Init /\ ED_Init /\ AM_Init /\ Unobserved

SA_TargetNext ==
    \/ SA_SetSupplierColumn
    \/ SA_handleCategoryToggle
    \/ SA_handleWeightChange
    \/ SA_handleTargetCategoryChange
    \/ SA_runSensitivityAnalysis

SpecSensitivityTarget == InitSensitivityTarget /\ [][SA_TargetNext]_vars

\* runSensitivityAnalysis applied to every runnable configuration.
InitSensitivityRun == SR_Init /\ ED_Init /\ AM_Init /\ Unobserved

SpecSensitivityRun == InitSensitivityRun /\ [][SA_runSensitivityAnalysis]_vars

InitRanking == excelData \in AM_DataSets /\ AM_Init /\ ED_Init /\ SA_Unmounted /\ Unobserved

SpecRanking == InitRanking /\ [][AM_Next]_vars

InitCorrelation ==
    /\ excelData \in CA_DataSets /\ CA_Init /\ ED_Init /\ SA_Unmounted /\ AM_Init
    /\ Pearson_Idle /\ Smoothing_Idle /\ Cell_Idle /\ Round_Idle /\ Power_Idle

SpecCorrelation == InitCorrelation /\ [][CA_Next]_vars

\* calculatePearsonCorrelation applied to every pair of series within the bounds.
InitPearson ==
    /\ excelData = DS6 /\ Pearson_Init /\ ED_Init /\ SA_Unmounted /\ AM_Init /\ CA_Init
    /\ Smoothing_Idle /\ Cell_Idle /\ Round_Idle /\ Power_Idle

SpecPearson == InitPearson /\ [][Pearson_Call]_vars

\* exponentialSmoothing applied to every series and smoothing factor within
\* the bounds.
InitSmoothing ==
    /\ excelData = DS1 /\ Smoothing_Init /\ ED_Init /\ SA_Unmounted /\ AM_Init /\ CA_Init
    /\ Pearson_Idle /\ Cell_Idle /\ Round_Idle /\ Power_Idle

SpecSmoothing == InitSmoothing /\ [][Smoothing_Call]_vars

\* The off-diagonal cell of every pair of series within the bounds.
InitCell ==
    /\ excelData = DS6 /\ Cell_Init /\ ED_Init /\ SA_Unmounted /\ AM_Init /\ CA_Init
    /\ Pearson_Idle /\ Smoothing_Idle /\ Round_Idle /\ Power_Idle

SpecCell == InitCell /\ [][Cell_Compute]_vars

\* The run handlers of CorrelationAnalysis and SensitivityAnalysis, entered
\* with and without a complete configuration.
\* One route is mounted at a time: SensitivityAnalysis on DS7, or
\* CorrelationAnalysis on DS6 with SensitivityAnalysis unmounted.
InitConfiguration ==
    /\ \/ excelData = DS7 /\ SA_Init
       \/ excelData = DS6 /\ SA_Unmounted
    /\ ED_Init /\ AM_Init /\ Unobserved

SensitivityRoute == sa_categories # <<>>

Route_SA_SetSupplierColumn == SensitivityRoute /\ SA_SetSupplierColumn

Route_SA_runSensitivityAnalysisUnconfigured ==
    SensitivityRoute /\ SA_runSensitivityAnalysisUnconfigured

Route_CA_handleVariableToggle == ~SensitivityRoute /\ CA_handleVariableToggle

Route_CA_handleRun == ~SensitivityRoute /\ CA_handleRun

Route_CA_handleRunUnconfigured == ~SensitivityRoute /\ CA_handleRunUnconfigured

ConfigurationNext ==
    \/ Route_SA_SetSupplierColumn
    \/ SA_handleCategoryToggle
    \/ SA_resetToEqualWeights
    \/ SA_handleTargetCategoryChange
    \/ SA_runSensitivityAnalysis
    \/ Route_SA_runSensitivityAnalysisUnconfigured
    \/ Route_CA_handleVariableToggle
    \/ Route_CA_handleRun
    \/ Route_CA_handleRunUnconfigured

SpecConfiguration == InitConfiguration /\ [][ConfigurationNext]_vars

\* The data viewer: the grid edits the loaded sheet.
InitGrid == excelData = GridSheet /\ ED_Init /\ SA_Unmounted /\ AM_Init /\ Unobserved

SpecGrid == InitGrid /\ [][FC_Next]_vars

\* roundLambda applied to every lambda within the bounds.
InitRound ==
    /\ excelData = DS6 /\ Round_Init /\ ED_Init /\ SA_Unmounted /\ AM_Init /\ CA_Init
    /\ Pearson_Idle /\ Smoothing_Idle /\ Cell_Idle /\ Power_Idle

SpecRound == InitRound /\ [][Round_Call]_vars

\* applyPowerTransformation applied to every series within the bounds and
\* every lambda of powerTransformations.
InitPower ==
    /\ excelData = DS6 /\ Power_Init /\ ED_Init /\ SA_Unmounted /\ AM_Init /\ CA_Init
    /\ Pearson_Idle /\ Smoothing_Idle /\ Cell_Idle /\ Round_Idle

SpecPower == InitPower /\ [][Power_Call]_vars


(***************************************************************************)
(* Properties                                                              *)
(***************************************************************************)
\* The result cells of a forecast state agree.
SameForecast(a, b) ==
    /\ a.predictionResults = b.predictionResults
    /\ a.overallAccuracy = b.overallAccuracy
    /\ a.cdGradeAccuracy = b.cdGradeAccuracy
    /\ a.error = b.error

\* A second runPrediction right after the run that left r changes no result.
ForecastRunIsRepeatable(r) == SameForecast(runPrediction(r), r)

\* C1 as stated, for the forecast: whenever the run button is enabled,
\* running twice in succession on the same dataset and configuration leaves
\* the same result state as running once.
C1_RunTwiceSameResult == ED_RunEnabled => ForecastRunIsRepeatable(runPrediction(ED_State))

\* The predictions computed from the observation history that extractData
\* groups from the current dataset and column selection.
PredictionsOfCurrentGrouping ==
    StableSort(PredictAll(extractData(excelData, ed_timeColumn, ed_supplierColumn,
                                      ed_categoryColumns, <<>>).history,
                          ed_alphaValue, ed_declineThreshold),
               TrendCompare)

\* C2 as stated: the predictionResults a runPrediction call stores are
\* computed from the history grouped from the dataset and column selection in
\* effect when the call started, never from an earlier grouping.
C2_ResultsFromCurrentGrouping ==
    [][(ED_runPrediction /\ extractData(excelData, ed_timeColumn, ed_supplierColumn,
                                        ed_categoryColumns, <<>>).ok)
          => ed_predictionResults' = PredictionsOfCurrentGrouping]_vars

\* The sum of the weights map m gives to the categories keys.
RECURSIVE MapSumOver(_, _)
MapSumOver(m, keys) ==
    IF keys = {} THEN Num(0)
    ELSE RAdd(m[CHOOSE k \in keys : TRUE],
              MapSumOver(m, keys \ {CHOOSE k \in keys : TRUE}))

\* The weight category c currently holds.
CurrentWeightOf(c) == (CHOOSE x \in Range(sa_categories) : x.category = c).weight

TargetSelected == sa_targetCategory \in SelectedNames(sa_categories)

\* A sensitivity run on at least two selected criteria whose weights sum to 1.
RunOnUnitWeights == SA_runSensitivityAnalysis /\ SelectedTotal(sa_categories) = Num(1)

\* C3: for at least two selected criteria whose weights sum to 1, a target
\* among them and either goal, the new weights runSensitivityAnalysis stores
\* for the selected criteria sum to 1.
C3_NewWeightsSumToOne ==
    [][(RunOnUnitWeights /\ TargetSelected)
          => /\ sa_newWeights' # Null
             /\ MapSumOver(sa_newWeights'[1], SelectedNames(sa_categories)) = Num(1)]_vars

\* A run over three selected criteria moved weight from the target to the
\* others and the new weights sum to 1.
C3_Witness ==
    /\ sa_newWeights # Null
    /\ Cardinality(SelectedNames(sa_categories)) = 3
    /\ TargetSelected
    /\ sa_optimizationGoal = "minimize"
    /\ sa_originalWeights[sa_targetCategory] = Rat(2, 5)
    /\ sa_newWeights[1][sa_targetCategory] = Rat(1, 5)
    /\ MapSumOver(sa_newWeights[1], SelectedNames(sa_categories)) = Num(1)

C5_TargetWeightRule ==
    [][(SA_runSensitivityAnalysis /\ TargetSelected)
          => sa_newWeights'[1][sa_targetCategory]
               = IF sa_optimizationGoal = "maximize"
                 THEN (IF RLt(Rat(9, 10), RMul(Num(2), CurrentWeightOf(sa_targetCategory)))
                       THEN Rat(9, 10)
                       ELSE RMul(Num(2), CurrentWeightOf(sa_targetCategory)))
                 ELSE (IF RGt(Rat(1, 10), RDiv(CurrentWeightOf(sa_targetCategory), Num(2)))
                       THEN Rat(1, 10)
                       ELSE RDiv(CurrentWeightOf(sa_targetCategory), Num(2)))]_vars

\* A maximized target of current weight 0.6 was capped at 0.9, and a
\* minimized one would be halved.
C5_Witness ==
    /\ sa_newWeights # Null
    /\ TargetSelected
    /\ sa_optimizationGoal = "maximize"
    /\ CurrentWeightOf(sa_targetCategory) = Rat(3, 5)
    /\ sa_originalWeights[sa_targetCategory] = Rat(3, 5)
    /\ sa_newWeights[1][sa_targetCategory] = Rat(9, 10)

\* C6 as stated: in every ranking result handleRun produces, the weights
\* applied to compute the scores (result.weights) sum to 1 within 1e-3.
C6_ResultWeightsSumToOne ==
    am_result # Null
       => RLe(RAbs(RSub(MapSumOver(am_result[1].weights, DOMAIN am_result[1].weights),
                        Num(1))),
              Rat(1, 1000))

\* The score a criterion value v earns among the numeric values of its
\* column: its position between the column minimum and maximum, and the
\* method's fixed score when the column is constant.
ScoreOfValue(method, values, v) ==
    IF RMaxSeq(values) = RMinSeq(values)
    THEN (IF method = "topsis" THEN Num(0) ELSE Rat(1, 2))
    ELSE RDiv(RSub(v, RMinSeq(values)), RSub(RMaxSeq(values), RMinSeq(values)))

\* The entry of the ranking result for the alternative of row r carries, for
\* criterion c, the score of row r's own cell value.
ScoredByOwnCell(result, ds, r, c) ==
    \E i \in DOMAIN result.data.rankedSuppliers :
       /\ result.data.rankedSuppliers[i].supplier
             = SupplierNames(ds, IndexOf(ds.headers, result.evaluationColumn))[r]
       /\ result.data.rankedSuppliers[i].criteriaScores[c]
             = ScoreOfValue(result.method,
                            NumericValues(ds.data, Len(ds.data), IndexOf(ds.headers, c)),
                            ParseCell(ds.data[r][IndexOf(ds.headers, c)], "0"))

\* C10 as stated: in a TOPSIS or Euclidean ranking, for every dataset row r
\* and every selected criterion, the value used to score the alternative of
\* row r is the numeric value of row r's own cell, also when other rows hold
\* non-numeric cells in that column.
C10_RowScoredByOwnCell ==
    am_result # Null
       => \A r \in DOMAIN excelData.data, j \in DOMAIN am_result[1].data.criteria :
             ~IsNaN(ParseCell(excelData.data[r][IndexOf(excelData.headers,
                                                        am_result[1].data.criteria[j])], "0"))
                => ScoredByOwnCell(am_result[1], excelData, r, am_result[1].data.criteria[j])


PerfectCorrelation ==
    [coefficient |-> SignedRoot(1, Num(1)), pValue |-> Num(0), isSignificant |-> TRUE]

\* C7: every correlation matrix handleRun produces is square and symmetric
\* (cell [i][j] equals cell [j][i] in coefficient, pValue and isSignificant)
\* and every diagonal cell is exactly {coefficient 1, pValue 0,
\* isSignificant true}, also when the selected columns yield series of
\* different lengths.
C7_MatrixSquareSymmetricUnitDiagonal ==
    /\ \A i \in DOMAIN ca_correlationMatrix :
          Len(ca_correlationMatrix[i]) = Len(ca_correlationMatrix)
    /\ \A i \in DOMAIN ca_correlationMatrix, j \in DOMAIN ca_correlationMatrix :
          /\ ca_correlationMatrix[i][j].coefficient = ca_correlationMatrix[j][i].coefficient
          /\ ca_correlationMatrix[i][j].pValue = ca_correlationMatrix[j][i].pValue
          /\ ca_correlationMatrix[i][j].isSignificant = ca_correlationMatrix[j][i].isSignificant
    /\ \A i \in DOMAIN ca_correlationMatrix :
          ca_correlationMatrix[i][i] = PerfectCorrelation

\* A run over two columns whose series have different lengths left a matrix
\* with a non-zero coefficient off the diagonal.
C7_Witness ==
    /\ Len(ca_correlationMatrix) = 2
    /\ ca_correlationMatrix[1][2].coefficient.sign # 0
    /\ \E v \in DOMAIN ca_numericData, w \in DOMAIN ca_numericData :
          Len(ca_numericData[v]) # Len(ca_numericData[w])

HasTwoValues(x) == \E i \in DOMAIN x, j \in DOMAIN x : x[i] # x[j]

\* C8 as stated: calculatePearsonCorrelation(x, x) returns 1.0 for every
\* non-empty numeric series x.
C8_SelfCorrelationIsOne ==
    (pearson_coefficient # Null /\ pearson_x = pearson_y)
       => pearson_coefficient[1] = SignedRoot(1, Num(1))

\* C8 amended: calculatePearsonCorrelation(x, x) returns 1.0 for every
\* series x holding at least two different values, and 0 for every non-empty
\* series whose values are all equal (a single value included).
C8_SelfCorrelationOneUnlessConstant ==
    (pearson_coefficient # Null /\ pearson_x = pearson_y)
       => pearson_coefficient[1]
            = IF HasTwoValues(pearson_x) THEN SignedRoot(1, Num(1))
              ELSE SignedRoot(0, Num(0))

\* The function was applied to a series of three values, not all equal, and
\* itself, and returned 1.
C8_Witness ==
    /\ pearson_coefficient = Some(SignedRoot(1, Num(1)))
    /\ pearson_x = pearson_y
    /\ Len(pearson_x) = 3
    /\ HasTwoValues(pearson_x)

\* The column of ds under this header holds no numeric cell: every cell is
\* empty, null or text that is not a number.
HoldsNoNumericCell(ds, variable) ==
    \A r \in DOMAIN ds.data :
       \/ ds.data[r][IndexOf(ds.headers, variable)].k = "nil"
       \/ /\ ds.data[r][IndexOf(ds.headers, variable)].k = "str"
          /\ \/ ds.data[r][IndexOf(ds.headers, variable)].s = ""
             \/ IsNaN(ParseFloat(ds.data[r][IndexOf(ds.headers, variable)].s))

\* C9 as stated: if a selected column contains no numeric cell (every cell
\* is empty, null or non-numeric text), the correlation run fails with an
\* error that names that column, stores no numeric data or statistics for
\* any variable of that run, and produces no new correlation matrix.
C9_ColumnWithoutNumbersFailsRun ==
    [][(CA_handleRun
          /\ \E v \in Range(ca_selectedVariables) : HoldsNoNumericCell(excelData, v))
         => /\ \E v \in Range(ca_selectedVariables) :
                 /\ HoldsNoNumericCell(excelData, v)
                 /\ ca_error' = "Variable '" \o v \o "' contains no numeric data."
            /\ UNCHANGED <<ca_numericData, ca_variableStats, ca_correlationMatrix>>]_vars


\* The rows of ds whose cell in column col holds an identifier: neither
\* null nor empty.
RowsWithIdentifier(ds, col) ==
    {r \in DOMAIN ds.data :
        ds.data[r][col].k # "nil" /\ CellToString(ds.data[r][col]) # ""}

\* C11 as stated: a dataset row whose identifier cell is missing (empty or
\* null) contributes no alternative to a ranking: rankedSuppliers holds
\* exactly one entry per row that has an identifier.
C11_OneEntryPerIdentifiedRow ==
    am_result # Null
       => /\ Len(am_result[1].data.rankedSuppliers)
               = Cardinality(RowsWithIdentifier(excelData,
                                IndexOf(excelData.headers, am_result[1].evaluationColumn)))
          /\ \A i \in DOMAIN am_result[1].data.rankedSuppliers :
                am_result[1].data.rankedSuppliers[i].supplier # ""

\* The selected criteria of a run that are absent from the dataset or whose
\* column holds no numeric cell.
OffendingCriteria(ds, selectedVariables) ==
    {c \in Range(selectedVariables) :
        IndexOf(ds.headers, c) = 0 \/ HoldsNoNumericCell(ds, c)}

\* The errors that name column c.
ErrorsNaming(c) ==
    {"Evaluation column '" \o c \o "' not found.",
     "Criterion '" \o c \o "' not found.",
     "Criterion '" \o c \o "' contains no numeric data."}

\* C12 as stated: if the identifier column or a selected criterion column is
\* absent from the dataset, or a selected criterion column contains no
\* numeric cell, the ranking returns no result, sets an error that names the
\* offending column, and leaves the previously stored ranking result
\* unchanged.
C12_UnusableColumnFailsRanking ==
    [][(AM_handleRun
          /\ \/ IndexOf(excelData.headers, am_evaluationColumn) = 0
             \/ OffendingCriteria(excelData, am_selectedVariables) # {})
         => /\ am_result' = am_result
            /\ \E c \in {am_evaluationColumn}
                          \cup OffendingCriteria(excelData, am_selectedVariables) :
                  am_error' \in ErrorsNaming(c)]_vars

\* Every cell of the column of ds under header c is a number.
FullyNumeric(ds, c) ==
    \A r \in DOMAIN ds.data : ds.data[r][IndexOf(ds.headers, c)].k = "num"

\* The number in row r of the column under header c.
ValueAt(ds, r, c) == ParseCell(ds.data[r][IndexOf(ds.headers, c)], "0")

ColumnValues(ds, c) == [r \in DOMAIN ds.data |-> ValueAt(ds, r, c)]

\* The result carries, for the alternative of row r, the score x in
\* criterion c.
RowScores(result, ds, r, c, x) ==
    \E i \in DOMAIN result.data.rankedSuppliers :
       /\ result.data.rankedSuppliers[i].supplier
             = SupplierNames(ds, IndexOf(ds.headers, result.evaluationColumn))[r]
       /\ result.data.rankedSuppliers[i].criteriaScores[c] = x

DistinctIdentifiers(suppliers) ==
    \A a \in DOMAIN suppliers, b \in DOMAIN suppliers : suppliers[a] = suppliers[b] => a = b

\* The raw value of the alternative named name in column c.
RawValueOf(ds, suppliers, name, c) == ValueAt(ds, IndexOf(suppliers, name), c)

\* C13 as stated: for a criterion column that is fully numeric and not
\* constant, TOPSIS gives criterion score 1 to every alternative holding the
\* column maximum and 0 to every alternative holding the column minimum;
\* with a single criterion of weight 1 and distinct identifiers the
\* alternatives are ranked in descending order of their raw values.
C13_TopsisExtremesAndOrder ==
    (am_result # Null /\ am_result[1].method = "topsis")
       => /\ \A j \in DOMAIN am_result[1].data.criteria :
                (/\ FullyNumeric(excelData, am_result[1].data.criteria[j])
                 /\ RMaxSeq(ColumnValues(excelData, am_result[1].data.criteria[j]))
                       # RMinSeq(ColumnValues(excelData, am_result[1].data.criteria[j])))
                   => \A r \in DOMAIN excelData.data :
                         /\ ValueAt(excelData, r, am_result[1].data.criteria[j])
                               = RMaxSeq(ColumnValues(excelData, am_result[1].data.criteria[j]))
                              => RowScores(am_result[1], excelData, r,
                                           am_result[1].data.criteria[j], Num(1))
                         /\ ValueAt(excelData, r, am_result[1].data.criteria[j])
                               = RMinSeq(ColumnValues(excelData, am_result[1].data.criteria[j]))
                              => RowScores(am_result[1], excelData, r,
                                           am_result[1].data.criteria[j], Num(0))
          /\ (/\ Len(am_result[1].data.criteria) = 1
              /\ FullyNumeric(excelData, am_result[1].data.criteria[1])
              /\ am_result[1].weights[am_result[1].data.criteria[1]] = Num(1)
              /\ DistinctIdentifiers(am_result[1].data.suppliers))
                => \A a \in DOMAIN am_result[1].data.rankedSuppliers,
                      b \in DOMAIN am_result[1].data.rankedSuppliers :
                      a < b => RGe(RawValueOf(excelData, am_result[1].data.suppliers,
                                              am_result[1].data.rankedSuppliers[a].supplier,
                                              am_result[1].data.criteria[1]),
                                   RawValueOf(excelData, am_result[1].data.suppliers,
                                              am_result[1].data.rankedSuppliers[b].supplier,
                                              am_result[1].data.criteria[1]))

\* C14 as stated: in a Euclidean ranking every alternative's per-criterion
\* score equals the min-max normalized value (v - min)/(max - min) of its
\* criterion value, lies in [0,1], and is 0.5 for every alternative when the
\* criterion column is constant.
C14_EuclideanScoreIsMinMax ==
    (am_result # Null /\ am_result[1].method = "euclidean")
       => \A j \in DOMAIN am_result[1].data.criteria :
             /\ \A i \in DOMAIN am_result[1].data.rankedSuppliers :
                   /\ RGe(am_result[1].data.rankedSuppliers[i]
                             .criteriaScores[am_result[1].data.criteria[j]], Num(0))
                   /\ RLe(am_result[1].data.rankedSuppliers[i]
                             .criteriaScores[am_result[1].data.criteria[j]], Num(1))
             /\ \A r \in DOMAIN excelData.data :
                   ~IsNaN(ValueAt(excelData, r, am_result[1].data.criteria[j]))
                      => RowScores(am_result[1], excelData, r, am_result[1].data.criteria[j],
                                   ScoreOfValue("euclidean",
                                                NumericValues(excelData.data, Len(excelData.data),
                                                    IndexOf(excelData.headers,
                                                            am_result[1].data.criteria[j])),
                                                ValueAt(excelData, r,
                                                        am_result[1].data.criteria[j])))

\* C15 as stated: in every ranking result, rankedSuppliers is ordered by
\* overall score non-increasing, and alternatives with equal overall score
\* appear in their dataset row order.
C15_OrderedByScoreThenRow ==
    am_result # Null
       => \A a \in DOMAIN am_result[1].data.rankedSuppliers,
             b \in DOMAIN am_result[1].data.rankedSuppliers :
             a < b => /\ RGe(am_result[1].data.rankedSuppliers[a].score,
                             am_result[1].data.rankedSuppliers[b].score)
                      /\ am_result[1].data.rankedSuppliers[a].score
                            = am_result[1].data.rankedSuppliers[b].score
                           => IndexOf(am_result[1].data.suppliers,
                                      am_result[1].data.rankedSuppliers[a].supplier)
                                 <= IndexOf(am_result[1].data.suppliers,
                                            am_result[1].data.rankedSuppliers[b].supplier)

\* C16 as stated: for every row of a ranking result, rankChange equals the
\* alternative's baseline rank (its rank in the baseline ranking of the same
\* run) minus its new rank, its 1-based position in rankedSuppliers, so that
\* rankChange is positive exactly when the alternative is placed better than
\* in the baseline ranking and negative exactly when it is placed worse.
C16_RankChangeIsBaselineMinusNew ==
    am_result # Null
       => \A i \in DOMAIN am_result[1].data.rankedSuppliers :
             /\ am_result[1].data.rankedSuppliers[i].supplier \in DOMAIN am_originalRankings
             /\ am_result[1].data.rankedSuppliers[i].rankChange
                   = am_originalRankings[am_result[1].data.rankedSuppliers[i].supplier] - i

\* C17: for an observed sequence of length n >= 1 and a smoothing factor a of
\* [0, 1], exponentialSmoothing returns n + 1 values: the first is the first
\* observation, each later one is a * (previous observation) + (1 - a) *
\* (previous returned value), the last (the forecast) included; so a = 0
\* repeats the first observation and a = 1 returns the observations shifted
\* by one.
SmoothingStep(a, observed, fitted) == RAdd(RMul(a, observed), RMul(RSub(Num(1), a), fitted))

SmallerLength(x, y) == IF Len(x) < Len(y) THEN Len(x) ELSE Len(y)

\* |t| < bound for t * t = r * r * (n - 2) / (1 - r * r); never when r * r = 1.
TBelow(r, n, bound) ==
    /\ r.square # Num(1)
    /\ RLt(RMul(r.square, Num(n - 2)), RMul(Num(bound * bound), RSub(Num(1), r.square)))

\* |t| < 2.5, on the quadrupled squares.
TBelowTwoAndAHalf(r, n) ==
    /\ r.square # Num(1)
    /\ RLt(RMul(r.square, Num(4 * (n - 2))), RMul(Num(25), RSub(Num(1), r.square)))

ClaimedPValue(r, n) ==
    IF n - 2 < 1 THEN Num(1)
    ELSE IF TBelow(r, n, 1) THEN Rat(1, 2)
    ELSE IF TBelow(r, n, 2) THEN Rat(1, 5)
    ELSE IF TBelowTwoAndAHalf(r, n) THEN Rat(5, 100)
    ELSE IF TBelow(r, n, 3) THEN Rat(1, 100)
    ELSE IF TBelow(r, n, 4) THEN Rat(1, 1000)
    ELSE Rat(1, 10000)

C20_PValueIsBandOfT ==
    cell_result # Null =>
        LET cell == cell_result[1]
        IN  /\ cell.pValue = ClaimedPValue(cell.coefficient, SmallerLength(cell_x, cell_y))
            /\ cell.isSignificant <=> RLe(cell.pValue, Rat(5, 100))

\* A cell of two series of at least three values whose |t| lies in [2, 2.5).
C20_Witness ==
    /\ cell_result # Null
    /\ SmallerLength(cell_x, cell_y) >= 3
    /\ cell_result[1].pValue = Rat(5, 100)
    /\ cell_result[1].isSignificant

\* A step of runPrediction that gets past extractData and completes.
RunCompletes ==
    /\ ED_runPrediction
    /\ extractData(excelData, ed_timeColumn, ed_supplierColumn, ed_categoryColumns,
                   ed_supplierHistory).ok

\* 100 * (matching results) / (results)
MatchRate(matching, total) == RMul(RDiv(Num(matching), Num(total)), Num(100))

\* The component state with the accuracies of a component that has not run.
WithoutEarlierRun == [ED_State EXCEPT !.overallAccuracy = Num(0), !.cdGradeAccuracy = Num(0)]

\* C19: after a completed runPrediction, overallAccuracy is 100 * (results of
\* the run whose predicted grade equals the observed grade) / (results of the
\* run), cdGradeAccuracy is the same rate over the results whose observed
\* grade is C or D, and neither value depends on what an earlier run left.
C19_AccuraciesAreOfThisRun ==
    [][RunCompletes =>
        LET results == ed_predictionResults'
        IN  /\ Len(results) > 0 =>
                ed_overallAccuracy' = MatchRate(CountWhere(results, GradeMatch),
                                                Len(results))
            /\ CountWhere(results, IsCDGrade) > 0 =>
                ed_cdGradeAccuracy' = MatchRate(CountWhere(results, CDGradeMatch),
                                                CountWhere(results, IsCDGrade))
            /\ ed_overallAccuracy' = runPrediction(WithoutEarlierRun).overallAccuracy
            /\ ed_cdGradeAccuracy' = runPrediction(WithoutEarlierRun).cdGradeAccuracy]_vars

\* The percent change from the last fitted value to the forecast.
PercentChange(lastFitted, forecast) == RMul(RDiv(RSub(forecast, lastFitted), lastFitted), Num(100))

TrendAsClaimed(result, threshold) ==
    LET lastFitted == result.predictedValues[Len(result.predictedValues)]
        forecast == result.nextPrediction
        change == PercentChange(lastFitted, forecast)
    IN  /\ result.trend = "up" <=> RGt(change, Num(threshold))
        /\ result.trend = "down" <=> RLt(change, Num(-threshold))
        /\ result.trend \in {"up", "down", "stable"}
        /\ lastFitted # Num(0) =>
               /\ result.trend = "up" => RGt(forecast, lastFitted)
               /\ result.trend = "down" => RLt(forecast, lastFitted)

\* C18: in every result of a completed runPrediction the trend is "up"
\* exactly when the percent change from the last fitted value to the forecast
\* exceeds the threshold, "down" exactly when it is below minus the
\* threshold, "stable" otherwise; so with a non-zero last fitted value "up"
\* comes only with a forecast above it and "down" only with a forecast
\* below it.
C18_TrendFollowsForecast ==
    [][RunCompletes =>
        \A i \in DOMAIN ed_predictionResults' :
            TrendAsClaimed(ed_predictionResults'[i], ed_declineThreshold)]_vars

\* |lambda - l|
DistanceTo(lambda, l) == RAbs(RSub(lambda, l))

C22_NonPositiveGivesZero ==
    power_result # Null =>
        \A i \in DOMAIN power_values :
            RLe(power_values[i], Num(0)) => power_result[1][i] = Num(0)

\* C22: applyPowerTransformation outputs 0 for every input value x <= 0
\* when lambda is one of -2, -1, -0.5, 0, 0.5; for lambda 1, 2 and 3 it
\* outputs x, x * x and x * x * x, which is 0 for x = 0 only.
C22_NonPositiveGivesZeroBelowOne ==
    power_result # Null =>
        \A i \in DOMAIN power_values :
            RLe(power_values[i], Num(0)) =>
                power_result[1][i] =
                    IF RLt(power_lambda, Num(1)) THEN Num(0)
                    ELSE RPow(power_values[i], power_lambda[1])

\* A series with a negative value, 0 and a positive value has been
\* transformed with lambda = -0.5.
C22_Witness ==
    /\ power_result # Null
    /\ power_lambda = Rat(-1, 2)
    /\ \E i, j, k \in DOMAIN power_values :
          /\ RLt(power_values[i], Num(0)) /\ power_values[j] = Num(0)
          /\ RGt(power_values[k], Num(0)) /\ power_result[1][k] # Num(0)

\* C23: handleRun of CorrelationAnalysis entered with fewer than two
\* selected variables, and runSensitivityAnalysis entered without target
\* category or with fewer than two selected categories, set an error and
\* leave the stored results (correlationMatrix, variableStats, numericData;
\* originalWeights, newWeights, absoluteChanges, newSupplierScores) as they
\* were.
C23_ConfigurationErrorKeepsResults ==
    [][/\ SA_runSensitivityAnalysisUnconfigured =>
            /\ sa_error' # NoError
            /\ UNCHANGED <<sa_originalWeights, sa_newWeights, sa_absoluteChanges,
                           sa_newSupplierScores>>
       /\ CA_handleRunUnconfigured =>
            /\ ca_error' # NoError
            /\ UNCHANGED <<ca_correlationMatrix, ca_variableStats, ca_numericData>>]_vars

\* The error of a run without complete configuration stands next to the
\* weights an earlier run stored.
C23_Witness ==
    /\ sa_newWeights # Null
    /\ sa_originalWeights # <<>>
    /\ sa_error = "Please select at least 2 categories for the analysis"

\* C24: starting from a sheet with unique column names, after any sequence
\* of addColumn, removeColumn, addRow, removeRow and updateCell the column
\* names are pairwise distinct.
C24_ColumnNamesDistinct ==
    \A i, j \in DOMAIN excelData.headers :
        excelData.headers[i] = excelData.headers[j] => i = j

\* C25: after any sequence of category toggles, target selections and weight
\* changes, whenever runSensitivityAnalysis computes new weights the target
\* category is one of the selected categories and the new weight map has
\* exactly the selected categories as keys.
C25_TargetAmongSelectedKeys ==
    [][SA_runSensitivityAnalysis =>
        /\ sa_newWeights' # Null
        /\ sa_targetCategory \in SelectedNames(sa_categories)
        /\ DOMAIN sa_newWeights'[1] = SelectedNames(sa_categories)]_vars

\* C26: in SensitivityAnalysis, after any sequence of category toggles,
\* slider moves and resets to equal weights from a freshly loaded dataset,
\* the weights of the selected categories sum to at most 1.
C26_SelectedWeightsAtMostOne ==
    RLe(SelectedTotal(sa_categories), Num(1))

C28_CriteriaWeightsWithinSimplex ==
    /\ \A i \in DOMAIN am_criteriaWeights :
          /\ RGe(am_criteriaWeights[i].weight, Num(0))
          /\ RLe(am_criteriaWeights[i].weight, Num(1))
    /\ RLe(WeightTotal(am_criteriaWeights), Num(1))
    /\ Len(am_criteriaWeights) = Len(am_selectedVariables)
    /\ \A v \in Range(am_selectedVariables) :
          Cardinality({i \in DOMAIN am_criteriaWeights :
                          am_criteriaWeights[i].criterion = v}) = 1

\* Two criteria are selected, one slider was moved to 0 and Normalize gave
\* the whole weight to the other one.
C28_Witness ==
    /\ Len(am_selectedVariables) = 2
    /\ am_criteriaWeights[1].weight = Num(0)
    /\ am_criteriaWeights[2].weight = Num(1)

\* C29: in CorrelationAnalysis, whenever correlationMatrix is non-empty it has
\* one row and one column per currently selected variable, and it is the
\* matrix of the correlations of the selected variables in their order.
C29_MatrixOfSelectedVariables ==
    ca_correlationMatrix # <<>>
       => /\ Len(ca_correlationMatrix) = Len(ca_selectedVariables)
          /\ \A i \in DOMAIN ca_correlationMatrix :
                Len(ca_correlationMatrix[i]) = Len(ca_selectedVariables)
          /\ \E r \in CA_handleRunOutcomes([CA_State EXCEPT !.correlationMatrix = <<>>],
                                           excelData, ca_selectedVariables) :
                r.correlationMatrix = ca_correlationMatrix

\* The sum of the rankChange values of the rows.
RECURSIVE RankChangeSum(_)
RankChangeSum(rows) ==
    IF rows = <<>> THEN 0 ELSE rows[1].rankChange + RankChangeSum(Tail(rows))

\* A ranking result over alternatives with pairwise distinct identifiers
\* whose selected criterion cells are all numeric.
RankingOfDistinctNumeric ==
    /\ am_result # Null
    /\ DistinctIdentifiers(am_result[1].data.suppliers)
    /\ \A j \in DOMAIN am_result[1].data.criteria :
          FullyNumeric(excelData, am_result[1].data.criteria[j])

\* C30: when the identifiers are pairwise distinct and every selected
\* criterion cell is numeric, the ranking result has one row per alternative,
\* the original ranks and the new ranks (originalRank - rankChange, the
\* 1-based position of the row) are both permutations of 1..n, and the
\* rankChange values of all rows sum to 0.
C30_RanksArePermutations ==
    RankingOfDistinctNumeric
       => LET rows == am_result[1].data.rankedSuppliers
              n == Len(excelData.data)
          IN  /\ Len(rows) = n
              /\ {rows[i].originalRank : i \in DOMAIN rows} = 1..n
              /\ \A i \in DOMAIN rows : rows[i].originalRank - rows[i].rankChange = i
              /\ RankChangeSum(rows) = 0

\* Three alternatives ranked on two numeric criteria: the baseline order and
\* the new order differ, and the rank changes cancel.
C30_Witness ==
    /\ RankingOfDistinctNumeric
    /\ Len(am_result[1].data.rankedSuppliers) = 3
    /\ Len(am_result[1].data.criteria) = 2
    /\ \E i \in DOMAIN am_result[1].data.rankedSuppliers :
          am_result[1].data.rankedSuppliers[i].rankChange > 0
    /\ RankChangeSum(am_result[1].data.rankedSuppliers) = 0

=============================================================================
